---- MODULE Spec2Model ----
(***************************************************************************)
(* The location service of env-load-manager: one PostgreSQL table of       *)
(* locations behind six tRPC procedures (create, list, get by id, update,  *)
(* delete, bulk upload).  Every procedure validates its input with its zod *)
(* schema and then runs its handler against the table.                     *)
(*                                                                         *)
(* Spec makes short runs of calls with many inputs, SpecRun longer runs    *)
(* with few inputs; in both a call is one step.  SpecOverlap runs a bulk   *)
(* upload statement by statement while other calls are made.               *)
(*                                                                         *)
(* Numbers.  A coordinate as the caller supplies it is a decimal           *)
(* [neg, u, d]: magnitude (u + d/10) * 1e-7 degrees, so d is the eighth    *)
(* decimal place, the first one a numeric(10,7) column cannot hold.  A     *)
(* stored coordinate is a signed count of 1e-7 degrees.  Loads are         *)
(* integers; a real column keeps 24 significant bits of them.  Timestamps  *)
(* are microseconds of the wall clock.                                     *)
(***************************************************************************)
EXTENDS Integers, Sequences, FiniteSets, TLC

\* ---------------------------------------------------------------- bounds
\* Ids the serial sequence may hand out in a run.
MaxId == 2
\* Rows in one bulk upload.
MaxBatch == 2
\* RPC calls in a run.
MaxCalls == 2
\* How far the wall clock runs between calls, in microseconds.
MaxNow == 1000
\* The microseconds a call takes.
CallMicros == 100
\* RPC calls in a long run.
MaxRun == 3
\* RPC calls in a run of overlapping calls, the ids the sequence may hand out
\* in it, and the bulk uploads in progress at once.
MaxOverlap == 3
MaxOverlapId == 3
MaxOpen == 1
\* Locations on the map.
MaxMarkers == 2
\* Characters in the cell of a file that varies, and data lines in a file
\* whose lines vary.
MaxCell == 2
MaxLines == 2
\* RPC calls the page makes in a run, the ids the sequence may hand out in
\* it, and the calls in flight at once.
MaxPageCalls == 3
MaxPageIds == 2
MaxInFlight == 1

\* ----------------------------------------------------- program constants
\* numeric(10, 7): seven decimal places are stored.
Scale7 == 10000000
\* real: a 24 bit significand.
RealSignificand == 16777216
\* z.number().min(-90).max(90)
LatMax == 90
\* z.number().min(-180).max(180)
LonMax == 180
\* A JavaScript Date counts milliseconds; a timestamp column counts microseconds.
MicrosPerMilli == 1000

\* ------------------------------------------------------------ value sets
NULL == "<null>"

Num(neg, u, d) == [neg |-> neg, u |-> u, d |-> d]

MutableFields ==
    {"name", "address", "latitude", "longitude", "snow_load", "wind_speed", "seismic_load"}

\* 40.7128, and -74.006
LatA == Num(FALSE, 407128000, 0)
LonA == Num(TRUE, 740060000, 0)
\* -89.99999996, which the column rounds to -90, and 180
LatB == Num(TRUE, 899999999, 6)
LonB == Num(FALSE, 1800000000, 0)
\* 90.00000001 and 200: outside [-90, 90]
LatOver == Num(FALSE, 900000000, 1)
Lat200 == Num(FALSE, 2000000000, 0)
\* -180.00000001: outside [-180, 180]
LonUnder == Num(TRUE, 1800000000, 1)
\* 40.7128123456789 and -73.98765435, to their eighth decimal place
LatD == Num(FALSE, 407128123, 4)
LonD == Num(TRUE, 739876543, 5)

CsvLocation(n, a, lat, lon, s, w, q) ==
    [name |-> n, address |-> a, latitude |-> lat, longitude |-> lon,
     snow_load |-> s, wind_speed |-> w, seismic_load |-> q]

RowA == CsvLocation("A", "x", LatA, LonA, 0, 25, 1)
RowB == CsvLocation("B", NULL, LatB, LonB, 16777217, 0, 2)
RowLat200 == CsvLocation("C", "x", Lat200, LonA, 0, 25, 1)
RowNoName == CsvLocation("", "x", LatA, LonA, 0, 25, 1)
RowNegLoad == CsvLocation("A", NULL, LatA, LonUnder, 0, -1, 1)
RowD == CsvLocation("D", NULL, LatD, LonD, 3, 0, 0)

\* ------------------------------------------------------------ conversions
Signed(neg, m) == IF neg THEN 0 - m ELSE m

\* ToNumeric gone wrong: the column is numeric(10, 5), five places are stored.
ToNumericScale5(x) ==
    LET m == ((x.u + 50) \div 100) * 100
    IN  IF x.neg THEN 0 - m ELSE m

\* input.latitude.toString() written to a numeric(10, 7) column: rounded to
\* seven places, half away from zero; the column has no negative zero.
ToNumeric(x) ==
    LET m == IF x.d >= 5 THEN x.u + 1 ELSE x.u
    IN  IF x.neg THEN 0 - m ELSE m

\* parseFloat(location.latitude) of the stored text.
ParseFloat(s) ==
    IF s < 0 THEN Num(TRUE, 0 - s, 0) ELSE Num(FALSE, s, 0)

\* A number written to a real column: the nearest value with a 24 bit
\* significand, ties to even (exact below 2^24; the inputs stay below 2^25).
ToReal(x) ==
    IF x <= RealSignificand THEN x
    ELSE LET q == x \div 2
         IN  IF x % 2 = 0 THEN x
             ELSE IF q % 2 = 0 THEN 2 * q ELSE 2 * (q + 1)

\* A timestamp column read into a JavaScript Date, and new Date() itself:
\* whole milliseconds.
ToDate(t) == (t \div MicrosPerMilli) * MicrosPerMilli

\* ------------------------------------------------------------- validation
MagAtMost(x, k) == x.u < k * Scale7 \/ (x.u = k * Scale7 /\ x.d = 0)
\* z.number().min(-k).max(k)
InRange(x, k) == MagAtMost(x, k)
\* z.number().nonnegative()
NonNegative(x) == x >= 0
\* z.string().min(1)
MinLength1(s) == s # ""

\* createLocationInputSchema gone wrong: name: z.string().
createLocationInputSchemaAnyName(input) ==
    /\ InRange(input.latitude, LatMax)
    /\ InRange(input.longitude, LonMax)
    /\ NonNegative(input.snow_load)
    /\ NonNegative(input.wind_speed)
    /\ NonNegative(input.seismic_load)

createLocationInputSchema(input) ==
    /\ MinLength1(input.name)
    /\ InRange(input.latitude, LatMax)
    /\ InRange(input.longitude, LonMax)
    /\ NonNegative(input.snow_load)
    /\ NonNegative(input.wind_speed)
    /\ NonNegative(input.seismic_load)

csvLocationSchema(row) ==
    /\ MinLength1(row.name)
    /\ InRange(row.latitude, LatMax)
    /\ InRange(row.longitude, LonMax)
    /\ NonNegative(row.snow_load)
    /\ NonNegative(row.wind_speed)
    /\ NonNegative(row.seismic_load)

\* An update input is [id, set]: set is a function on the fields the caller
\* supplied, so an absent field and an address of null differ.
Has(input, f) == f \in DOMAIN input.set

\* updateLocationInputSchema gone wrong: latitude: z.number().optional().
updateLocationInputSchemaAnyLatitude(input) ==
    /\ Has(input, "name") => MinLength1(input.set.name)
    /\ Has(input, "longitude") => InRange(input.set.longitude, LonMax)
    /\ Has(input, "snow_load") => NonNegative(input.set.snow_load)
    /\ Has(input, "wind_speed") => NonNegative(input.set.wind_speed)
    /\ Has(input, "seismic_load") => NonNegative(input.set.seismic_load)

updateLocationInputSchema(input) ==
    /\ Has(input, "name") => MinLength1(input.set.name)
    /\ Has(input, "latitude") => InRange(input.set.latitude, LatMax)
    /\ Has(input, "longitude") => InRange(input.set.longitude, LonMax)
    /\ Has(input, "snow_load") => NonNegative(input.set.snow_load)
    /\ Has(input, "wind_speed") => NonNegative(input.set.wind_speed)
    /\ Has(input, "seismic_load") => NonNegative(input.set.seismic_load)

bulkUploadInputSchema(input) ==
    /\ Len(input.locations) >= 1
    /\ \A i \in 1..Len(input.locations) : csvLocationSchema(input.locations[i])

\* ------------------------------------------------------------------ state
VARIABLES
    locationsTable,   \* the rows of the locations table, by id
    idSeq,            \* the last value the serial sequence of id handed out
    now,              \* the wall clock, microseconds
    request,          \* the last RPC call: procedure and input
    response,         \* what that call returned or threw
    calls,            \* RPC calls made so far
    returnedIds,      \* history: the ids createLocation has returned
    open,             \* the bulk uploads in progress, each with its transaction
    log,              \* history: when on, the calls that returned, in that order
    rpc,              \* the browser's RPC calls in flight
    timers,           \* the browser's pending timeouts and running intervals
    app,              \* the state of the App component
    form,             \* the state of the LocationForm component
    table,            \* the state of the LocationTable component
    upload,           \* the state of the BulkUpload component, and the file chosen
    map               \* what the LocationMap component drew

clientVars == <<rpc, timers, app, form, table, upload, map>>

vars == <<locationsTable, idSeq, now, request, response, calls, returnedIds, open, log,
          clientVars>>


\* ----------------------------------------------------------------- inputs
Restrict(r, S) == [f \in S |-> r[f]]

CreateInputs == {RowA, RowB, RowNoName, RowNegLoad}

\* The field sets an update supplies: none, any one, or all of them.
PresentSets == {S \in SUBSET MutableFields : Cardinality(S) <= 1 \/ S = MutableFields}

UpdateSets ==
    {Restrict(RowB, S) : S \in PresentSets}
        \cup {Restrict(RowA, {"address"}),
              Restrict(RowNoName, {"name"}), Restrict(RowLat200, {"latitude"}),
              Restrict(RowNegLoad, {"longitude"}), Restrict(RowNegLoad, {"wind_speed"})}

Ids == 1..MaxId

UpdateInputs == {[id |-> i, set |-> u] : i \in Ids, u \in UpdateSets}

DeleteInputs == {[id |-> i] : i \in Ids}

BulkRows == {RowA, RowB, RowLat200}

SeqsUpTo(S, n) == UNION {[1..k -> S] : k \in 0..n}

BulkInputs == {[locations |-> l] : l \in SeqsUpTo(BulkRows, MaxBatch)}

\* ------------------------------------------------------------ the database
\* What a column keeps of the value written to it.
ColumnValue(f, v) ==
    CASE f \in {"latitude", "longitude"} -> ToNumeric(v)
      [] f \in {"snow_load", "wind_speed", "seismic_load"} -> ToReal(v)
      [] OTHER -> v

\* InsertedRow gone wrong: latitude and longitude change places.
InsertedRowSwapped(id, values, dbNow) ==
    [id |-> id,
     name |-> values.name,
     address |-> values.address,
     latitude |-> ColumnValue("longitude", values.longitude),
     longitude |-> ColumnValue("latitude", values.latitude),
     snow_load |-> ColumnValue("snow_load", values.snow_load),
     wind_speed |-> ColumnValue("wind_speed", values.wind_speed),
     seismic_load |-> ColumnValue("seismic_load", values.seismic_load),
     created_at |-> dbNow,
     updated_at |-> dbNow]

\* insert(locationsTable).values({...}): id from the serial sequence,
\* created_at and updated_at from defaultNow(), the database's clock.
InsertedRow(id, values, dbNow) ==
    [id |-> id,
     name |-> values.name,
     address |-> values.address,
     latitude |-> ColumnValue("latitude", values.latitude),
     longitude |-> ColumnValue("longitude", values.longitude),
     snow_load |-> ColumnValue("snow_load", values.snow_load),
     wind_speed |-> ColumnValue("wind_speed", values.wind_speed),
     seismic_load |-> ColumnValue("seismic_load", values.seismic_load),
     created_at |-> dbNow,
     updated_at |-> dbNow]

Put(tbl, row) == [i \in DOMAIN tbl \cup {row.id} |-> IF i = row.id THEN row ELSE tbl[i]]

Remove(tbl, id) == [i \in DOMAIN tbl \ {id} |-> tbl[i]]

\* The row as a handler returns it: coordinates parsed back to numbers,
\* timestamps read into Dates.
Location(row) ==
    [row EXCEPT !.latitude = ParseFloat(@), !.longitude = ParseFloat(@),
                !.created_at = ToDate(@), !.updated_at = ToDate(@)]

\* --------------------------------------------------------------- outcomes
Returned(v) == [kind |-> "ok", value |-> v]
Thrown(e) == [kind |-> "error", error |-> e]

ValidationError == "BAD_REQUEST"
NotFoundError == "not found"
DatabaseError == "database error"
AbortedError == "current transaction is aborted"

Outcome(tbl, seq, resp) == [table |-> tbl, idSeq |-> seq, response |-> resp]

\* --------------------------------------------------------------- handlers
\* createLocation gone wrong: nothing is inserted; the input comes back under
\* the id 0 with the server's time.
createLocationNotPersisted(input, tbl, seq, dbNow, fault) ==
    Outcome(tbl, seq,
            Returned([id |-> 0, name |-> input.name, address |-> input.address,
                      latitude |-> input.latitude, longitude |-> input.longitude,
                      snow_load |-> input.snow_load, wind_speed |-> input.wind_speed,
                      seismic_load |-> input.seismic_load,
                      created_at |-> ToDate(dbNow), updated_at |-> ToDate(dbNow)]))

\* createLocation gone wrong: the id is the number of records plus one, not
\* the next value of the sequence.
createLocationCountingIds(input, tbl, seq, dbNow, fault) ==
    IF fault THEN Outcome(tbl, seq, Thrown(DatabaseError))
    ELSE LET row == InsertedRow(Cardinality(DOMAIN tbl) + 1, input, dbNow)
         IN  Outcome(Put(tbl, row), seq + 1, Returned(Location(row)))

\* fault: the database rejects the handler's statement.
createLocation(input, tbl, seq, dbNow, fault) ==
    IF fault THEN Outcome(tbl, seq, Thrown(DatabaseError))
    ELSE LET row == InsertedRow(seq + 1, input, dbNow)
         IN  Outcome(Put(tbl, row), seq + 1, Returned(Location(row)))

\* updateData gone wrong: every column is written, a field the caller left
\* out with a default.
DefaultValues == CsvLocation("Updated Location", NULL, Num(FALSE, 0, 0), Num(FALSE, 0, 0), 0, 0, 0)

updateDataWithDefaults(input, appNow) ==
    [f \in MutableFields \cup {"updated_at"} |->
        IF f = "updated_at" THEN ToDate(appNow)
        ELSE IF f \in DOMAIN input.set THEN input.set[f] ELSE DefaultValues[f]]

\* The update object: the supplied fields, and always updated_at = new Date().
updateData(input, appNow) ==
    [f \in DOMAIN input.set \cup {"updated_at"} |->
        IF f = "updated_at" THEN ToDate(appNow) ELSE input.set[f]]

\* update(locationsTable).set(updateData) on one row.
UpdatedRow(row, data) ==
    [f \in DOMAIN row |->
        IF f \in DOMAIN data THEN ColumnValue(f, data[f]) ELSE row[f]]

\* updateLocation gone wrong: an id that matches nothing is inserted.
updateLocationOrInsert(input, tbl, seq, appNow, fault) ==
    IF fault THEN Outcome(tbl, seq, Thrown(DatabaseError))
    ELSE LET old == IF input.id \in DOMAIN tbl THEN tbl[input.id]
                    ELSE InsertedRow(input.id, DefaultValues, appNow)
             row == UpdatedRow(old, updateData(input, appNow))
         IN  Outcome(Put(tbl, row), seq, Returned(Location(row)))

\* updateLocation gone wrong: an id that matches nothing returns null, as the
\* read by id does, instead of throwing.
updateLocationOrNull(input, tbl, seq, appNow, fault) ==
    IF fault THEN Outcome(tbl, seq, Thrown(DatabaseError))
    ELSE IF input.id \notin DOMAIN tbl
         THEN Outcome(tbl, seq, Returned(NULL))
         ELSE LET row == UpdatedRow(tbl[input.id], updateData(input, appNow))
              IN  Outcome(Put(tbl, row), seq, Returned(Location(row)))

updateLocation(input, tbl, seq, appNow, fault) ==
    IF fault THEN Outcome(tbl, seq, Thrown(DatabaseError))
    ELSE IF input.id \notin DOMAIN tbl
         THEN Outcome(tbl, seq, Thrown(NotFoundError))
         ELSE LET row == UpdatedRow(tbl[input.id], updateData(input, appNow))
              IN  Outcome(Put(tbl, row), seq, Returned(Location(row)))

\* deleteLocation gone wrong: return { success: true }, whatever was deleted.
deleteLocationAlwaysTrue(input, tbl, seq, fault) ==
    IF fault THEN Outcome(tbl, seq, Thrown(DatabaseError))
    ELSE Outcome(Remove(tbl, input.id), seq, Returned([success |-> TRUE]))

\* deleteLocation gone wrong: db.delete(locationsTable) without its where().
deleteLocationEveryRow(input, tbl, seq, fault) ==
    IF fault THEN Outcome(tbl, seq, Thrown(DatabaseError))
    ELSE Outcome(<<>>, seq, Returned([success |-> DOMAIN tbl # {}]))

\* deleteLocation gone wrong: deleting the newest record gives its id back to
\* the sequence.
deleteLocationReleasingId(input, tbl, seq, fault) ==
    IF fault THEN Outcome(tbl, seq, Thrown(DatabaseError))
    ELSE Outcome(Remove(tbl, input.id),
                 IF input.id \in DOMAIN tbl /\ input.id = seq THEN seq - 1 ELSE seq,
                 Returned([success |-> input.id \in DOMAIN tbl]))

\* delete(locationsTable).where(eq(id, input.id)).returning(): success says
\* whether a row was deleted.
deleteLocation(input, tbl, seq, fault) ==
    IF fault THEN Outcome(tbl, seq, Thrown(DatabaseError))
    ELSE Outcome(Remove(tbl, input.id), seq,
                 Returned([success |-> input.id \in DOMAIN tbl]))

\* getLocationById gone wrong: no row is an error, as it is in updateLocation.
getLocationByIdOrThrow(input, tbl, seq, fault) ==
    IF fault THEN Outcome(tbl, seq, Thrown(DatabaseError))
    ELSE IF input.id \notin DOMAIN tbl
         THEN Outcome(tbl, seq, Thrown(NotFoundError))
         ELSE Outcome(tbl, seq, Returned(Location(tbl[input.id])))

\* select().from(locationsTable).where(eq(id, input.id)).limit(1): the record,
\* or null when no row has the id.
getLocationById(input, tbl, seq, fault) ==
    IF fault THEN Outcome(tbl, seq, Thrown(DatabaseError))
    ELSE IF input.id \notin DOMAIN tbl
         THEN Outcome(tbl, seq, Returned(NULL))
         ELSE Outcome(tbl, seq, Returned(Location(tbl[input.id])))

\* orderByDescCreatedAt gone wrong: .orderBy(asc(locationsTable.created_at)).
orderByAscCreatedAt(tbl) ==
    {order \in [1..Cardinality(DOMAIN tbl) -> DOMAIN tbl] :
        /\ \A j, k \in DOMAIN order : j # k => order[j] # order[k]
        /\ \A j, k \in DOMAIN order :
              j < k => tbl[order[j]].created_at <= tbl[order[k]].created_at}

\* The orders ORDER BY created_at DESC may return the rows in: sequences of
\* ids, every row once, no row before one created later.  Rows with the same
\* created_at (the rows of one bulk upload) come in whichever order the
\* database picks.
orderByDescCreatedAt(tbl) ==
    {order \in [1..Cardinality(DOMAIN tbl) -> DOMAIN tbl] :
        /\ \A j, k \in DOMAIN order : j # k => order[j] # order[k]
        /\ \A j, k \in DOMAIN order :
              j < k => tbl[order[j]].created_at >= tbl[order[k]].created_at}

\* getLocations gone wrong: catch (error) { return [] }.
getLocationsOrEmpty(tbl, seq, order, fault) ==
    IF fault THEN Outcome(tbl, seq, Returned(<<>>))
    ELSE Outcome(tbl, seq, Returned([k \in DOMAIN order |-> Location(tbl[order[k]])]))

\* results.map(location => ({...location, latitude: parseFloat(...), ...}))
getLocations(tbl, seq, order, fault) ==
    IF fault THEN Outcome(tbl, seq, Thrown(DatabaseError))
    ELSE Outcome(tbl, seq, Returned([k \in DOMAIN order |-> Location(tbl[order[k]])]))

\* { status: 'ok', timestamp: new Date().toISOString() }
healthcheck(tbl, seq, appNow) ==
    Outcome(tbl, seq, Returned([status |-> "ok", timestamp |-> ToDate(appNow)]))


\* Row i (counted from 0, as the loop counts) of a bulk upload, inside the
\* transaction.  st: the rows the transaction has inserted, the sequence,
\* createdCount, errors, and whether a failed statement has aborted the
\* transaction.  A statement the database rejects fails and aborts the
\* transaction; every later statement of an aborted transaction fails too.
\* BulkError gone wrong: the loop index itself, which counts from 0.
BulkErrorFromZero(i, location, reason) == [row |-> i, name |-> location.name, reason |-> reason]

BulkError(i, location, reason) == [row |-> i + 1, name |-> location.name, reason |-> reason]

BulkStep(st, i, location, rejected, dbNow) ==
    IF st.aborted
    THEN [st EXCEPT !.errors = Append(@, BulkError(i, location, AbortedError))]
    ELSE IF rejected
         THEN [st EXCEPT !.errors = Append(@, BulkError(i, location, DatabaseError)),
                         !.aborted = TRUE]
         ELSE [st EXCEPT !.inserted = Put(@, InsertedRow(st.idSeq + 1, location, dbNow)),
                         !.idSeq = @ + 1,
                         !.createdCount = @ + 1]

RECURSIVE BulkLoop(_, _, _, _, _)
BulkLoop(st, i, locations, rejects, dbNow) ==
    IF i < Len(locations)
    THEN BulkLoop(BulkStep(st, i, locations[i + 1], (i + 1) \in rejects, dbNow),
                  i + 1, locations, rejects, dbNow)
    ELSE st

\* COMMIT at the end of db.transaction: the callback caught every row's
\* error, so the commit is always sent; the commit of an aborted transaction
\* is a rollback, and reports no error.
Commit(tbl, st) ==
    IF st.aborted THEN tbl
    ELSE [i \in DOMAIN tbl \cup DOMAIN st.inserted |->
             IF i \in DOMAIN st.inserted THEN st.inserted[i] ELSE tbl[i]]

\* BulkUploadResponse gone wrong: errors is returned even when it is empty.
BulkUploadResponseWithErrors(st) ==
    [success |-> st.createdCount > 0, created_count |-> st.createdCount, errors |-> st.errors]

BulkUploadResponse(st) ==
    IF Len(st.errors) > 0
    THEN [success |-> st.createdCount > 0, created_count |-> st.createdCount,
          errors |-> st.errors]
    ELSE [success |-> st.createdCount > 0, created_count |-> st.createdCount]

\* rejects: the rows (counted from 1) whose INSERT the database rejects.
bulkUploadLocations(input, tbl, seq, dbNow, rejects) ==
    LET st0 == [inserted |-> <<>>, idSeq |-> seq, createdCount |-> 0,
                errors |-> <<>>, aborted |-> FALSE]
        st == BulkLoop(st0, 0, input.locations, rejects, dbNow)
    IN  Outcome(Commit(tbl, st), st.idSeq, Returned(BulkUploadResponse(st)))

\* ---------------------------------------- a bulk upload, statement by statement
\* The handler awaits each statement of its transaction, and other calls run
\* meanwhile.  db.transaction(...): BEGIN, on a connection of its own; the
\* rows get the transaction's start time.
Begin(input, rejects, dbNow) ==
    [input |-> input, rejected |-> rejects, dbNow |-> dbNow, i |-> 0, seqs |-> <<>>,
     st |-> [inserted |-> <<>>, idSeq |-> 0, createdCount |-> 0,
             errors |-> <<>>, aborted |-> FALSE]]

\* trxInsert gone wrong: db.insert(...) inside the callback.  The row is
\* inserted outside the transaction: committed at once, and a failure of it
\* does not abort the transaction.
dbInsert(tbl, t, seq) ==
    LET location == t.input.locations[t.i + 1]
        next == [t EXCEPT !.i = @ + 1, !.seqs = Append(@, seq)]
    IN  IF (t.i + 1) \in t.rejected
        THEN [table |-> tbl, idSeq |-> seq,
              txn |-> [next EXCEPT !.st.errors =
                          Append(@, BulkError(t.i, location, DatabaseError))]]
        ELSE [table |-> Put(tbl, InsertedRow(seq + 1, location, t.dbNow)),
              idSeq |-> seq + 1,
              txn |-> [next EXCEPT !.st.createdCount = @ + 1]]

\* await trx.insert(locationsTable).values(...) of row t.i, with its try and
\* catch.  seq: the value of the id sequence, which all connections share.
\* The row stays in the transaction; the table the other calls read is as it
\* was.
trxInsert(tbl, t, seq) ==
    LET st == BulkStep([t.st EXCEPT !.idSeq = seq], t.i, t.input.locations[t.i + 1],
                       (t.i + 1) \in t.rejected, t.dbNow)
    IN  [table |-> tbl, idSeq |-> st.idSeq,
         txn |-> [t EXCEPT !.i = @ + 1, !.seqs = Append(@, seq), !.st = st]]

\* ------------------------------------------------------------ the browser
\* The state each component mounts with: its useState(...) calls.
AppMounted ==
    [locations |-> <<>>, isLoading |-> TRUE, backendError |-> FALSE,
     hasAttemptedLoad |-> FALSE]

EmptyFormData == CsvLocation("", NULL, Num(FALSE, 0, 0), Num(FALSE, 0, 0), 0, 0, 0)

LocationFormMounted ==
    [isLoading |-> FALSE, error |-> NULL, success |-> NULL, formData |-> EmptyFormData]

\* editingLocation null: a location without an id.
NoLocation == [id |-> 0]

LocationTableMounted ==
    [editingLocation |-> NoLocation, isEditDialogOpen |-> FALSE, isUpdating |-> FALSE,
     isDeleting |-> FALSE, error |-> NULL, editFormData |-> [id |-> 0, set |-> EmptyFormData]]

\* parsedData and uploadResult are null: nothing is shown.
NoParsedData == [shown |-> FALSE, validRows |-> <<>>, errors |-> <<>>, totalRows |-> 0]

NoUploadResult == [shown |-> FALSE, success |-> FALSE, created_count |-> 0, errors |-> <<>>]

\* file: the value of the file input, fileInputRef.current.value; reading:
\* the files a FileReader is reading.
BulkUploadMounted ==
    [isUploading |-> FALSE, uploadProgress |-> 0, parsedData |-> NoParsedData,
     uploadResult |-> NoUploadResult, file |-> NULL, reading |-> <<>>]

NoTimers == [timeouts |-> <<>>, intervals |-> {}]

\* mapData for no locations: the default bounds, in twentieths of a degree.
DefaultBounds == [north |-> 820, south |-> 800, east |-> -1460, west |-> -1500]

NothingDrawn == [drawn |-> FALSE, bounds |-> DefaultBounds, markers |-> <<>>]

\* ------------------------------------------------------------- procedures
\* The log with one more call: its procedure, input and rejected statements,
\* the clock reading it used, the value of the id sequence before each of its
\* inserts, and what it returned or threw.
Logged(op, input, rejected, at, seqs, resp) ==
    IF log.on
    THEN [log EXCEPT !.calls = Append(@, [op |-> op, input |-> input, rejected |-> rejected,
                                          at |-> at, seqs |-> seqs, response |-> resp])]
    ELSE log

\* A procedure of appRouter ran its handler.  rejected: the statements of the
\* call that the database rejected.
Handled(op, input, rejected, outcome) ==
    /\ calls' = calls + 1
    /\ request' = [op |-> op, input |-> input, rejected |-> rejected]
    /\ locationsTable' = outcome.table
    /\ idSeq' = outcome.idSeq
    /\ response' = outcome.response
    /\ now' = now + CallMicros
    /\ returnedIds' = IF op = "createLocation" /\ outcome.response.kind = "ok"
                      THEN returnedIds \cup {outcome.response.value.id}
                      ELSE returnedIds
    /\ log' = Logged(op, input, rejected, now, <<idSeq>>, outcome.response)
    /\ UNCHANGED open

\* .input(schema) threw: the handler never ran.
Refused(op, input) ==
    /\ calls' = calls + 1
    /\ request' = [op |-> op, input |-> input, rejected |-> {}]
    /\ response' = Thrown(ValidationError)
    /\ now' = now + CallMicros
    /\ UNCHANGED <<locationsTable, idSeq, returnedIds, open, log>>

\* The callers of a run and its database: the inputs the callers send to
\* each procedure, how many calls they make, how many ids the sequence hands
\* out, and whether the database may reject a statement.
Callers(create, update, delete, get, bulk, n, ids, faulty) ==
    [create |-> create, update |-> update, delete |-> delete, get |-> get,
     bulk |-> bulk, calls |-> n, ids |-> ids, faulty |-> faulty]

\* The statements, of the n a call sends, that the database rejects.
Rejections(env, n) == IF env.faulty THEN SUBSET (1..n) ELSE {{}}

CreateLocationBy(env) ==
    \E input \in env.create :
        /\ calls < env.calls
        /\ UNCHANGED clientVars
        /\ idSeq < env.ids
        /\ IF createLocationInputSchema(input)
           THEN \E rejected \in Rejections(env, 1) :
                    Handled("createLocation", input, rejected,
                            createLocation(input, locationsTable, idSeq, now, rejected # {}))
           ELSE Refused("createLocation", input)

UpdateLocationBy(env) ==
    \E input \in env.update :
        /\ calls < env.calls
        /\ UNCHANGED clientVars
        /\ IF updateLocationInputSchema(input)
           THEN \E rejected \in Rejections(env, 1) :
                    Handled("updateLocation", input, rejected,
                            updateLocation(input, locationsTable, idSeq, now, rejected # {}))
           ELSE Refused("updateLocation", input)

DeleteLocationBy(env) ==
    \E input \in env.delete, rejected \in Rejections(env, 1) :
        /\ calls < env.calls
        /\ UNCHANGED clientVars
        /\ Handled("deleteLocation", input, rejected,
                   deleteLocation(input, locationsTable, idSeq, rejected # {}))

BulkUploadLocationsBy(env) ==
    \E input \in env.bulk :
        /\ calls < env.calls
        /\ UNCHANGED clientVars
        /\ idSeq + Len(input.locations) <= env.ids
        /\ IF bulkUploadInputSchema(input)
           THEN \E rejected \in Rejections(env, Len(input.locations)) :
                    Handled("bulkUploadLocations", input, rejected,
                            bulkUploadLocations(input, locationsTable, idSeq, now, rejected))
           ELSE Refused("bulkUploadLocations", input)

GetLocationByIdBy(env) ==
    \E input \in env.get, rejected \in Rejections(env, 1) :
        /\ calls < env.calls
        /\ UNCHANGED clientVars
        /\ Handled("getLocationById", input, rejected,
                   getLocationById(input, locationsTable, idSeq, rejected # {}))

GetLocationsBy(env) ==
    \E order \in orderByDescCreatedAt(locationsTable), rejected \in Rejections(env, 1) :
        /\ calls < env.calls
        /\ UNCHANGED clientVars
        /\ Handled("getLocations", NULL, rejected,
                   getLocations(locationsTable, idSeq, order, rejected # {}))

HealthcheckBy(env) ==
    /\ calls < env.calls
    /\ UNCHANGED clientVars
    /\ Handled("healthcheck", NULL, {}, healthcheck(locationsTable, idSeq, now))

\* Time passes between calls.  A handler reads the clocks as its call
\* starts: the database's for defaultNow(), the server's for new Date().
TickSteps == {500, 1000}

Tick ==
    \E d \in TickSteps :
        /\ now + d <= MaxNow + calls * CallMicros
        /\ now' = now + d
        /\ UNCHANGED <<locationsTable, idSeq, request, response, calls, returnedIds, open, log>>
        /\ UNCHANGED clientVars

\* The server has started on an empty table.
Started(logging) ==
    /\ locationsTable = <<>>
    /\ idSeq = 0
    /\ now = 0
    /\ request = [op |-> "none"]
    /\ response = [kind |-> "none"]
    /\ calls = 0
    /\ returnedIds = {}
    /\ open = <<>>
    /\ log = [on |-> logging, calls |-> <<>>]

\* No browser has opened the page.
NoBrowser ==
    /\ rpc = <<>>
    /\ timers = NoTimers
    /\ app = AppMounted
    /\ form = LocationFormMounted
    /\ table = LocationTableMounted
    /\ upload = BulkUploadMounted
    /\ map = NothingDrawn

Init == Started(FALSE) /\ NoBrowser

\* Short runs of calls with many inputs, against a database that may reject
\* any statement.
GetLocationInputs == {[id |-> i] : i \in Ids}

AnyCaller ==
    Callers(CreateInputs, UpdateInputs, DeleteInputs, GetLocationInputs, BulkInputs,
            MaxCalls, MaxId, TRUE)

CreateLocation == CreateLocationBy(AnyCaller)
UpdateLocation == UpdateLocationBy(AnyCaller)
DeleteLocation == DeleteLocationBy(AnyCaller)
BulkUploadLocations == BulkUploadLocationsBy(AnyCaller)
GetLocationById == GetLocationByIdBy(AnyCaller)
GetLocations == GetLocationsBy(AnyCaller)
Healthcheck == HealthcheckBy(AnyCaller)

Next ==
    \/ CreateLocation
    \/ UpdateLocation
    \/ DeleteLocation
    \/ BulkUploadLocations
    \/ GetLocationById
    \/ GetLocations
    \/ Healthcheck
    \/ Tick

Spec == Init /\ [][Next]_vars

\* Longer runs of calls with few inputs.
RunCaller ==
    Callers({RowA}, {[id |-> i, set |-> Restrict(RowB, {"name"})] : i \in Ids},
            DeleteInputs, GetLocationInputs, {[locations |-> <<RowA, RowB>>]},
            MaxRun, MaxId, TRUE)

RunCreateLocation == CreateLocationBy(RunCaller)
RunUpdateLocation == UpdateLocationBy(RunCaller)
RunDeleteLocation == DeleteLocationBy(RunCaller)
RunBulkUploadLocations == BulkUploadLocationsBy(RunCaller)
RunGetLocationById == GetLocationByIdBy(RunCaller)
RunGetLocations == GetLocationsBy(RunCaller)
RunHealthcheck == HealthcheckBy(RunCaller)

NextRun ==
    \/ RunCreateLocation
    \/ RunUpdateLocation
    \/ RunDeleteLocation
    \/ RunBulkUploadLocations
    \/ RunGetLocationById
    \/ RunGetLocations
    \/ RunHealthcheck
    \/ Tick

SpecRun == Init /\ [][NextRun]_vars


\* Calls that overlap: a bulk upload is in progress, statement by statement,
\* while other calls are made.  The database may reject an insert of the
\* bulk upload; it executes the statements of the other calls.
OverlapCaller ==
    Callers({RowA}, {[id |-> 1, set |-> Restrict(RowB, {"name"})]},
            {[id |-> 1]}, {}, {[locations |-> <<RowA, RowB>>]},
            MaxOverlap, MaxOverlapId, FALSE)

RemoveAt(q, k) == [j \in 1..(Len(q) - 1) |-> IF j < k THEN q[j] ELSE q[j + 1]]

\* The rows the bulk uploads in progress have yet to insert.
Pending == LET RECURSIVE Sum(_)
               Sum(k) == IF k = 0 THEN 0
                         ELSE Sum(k - 1) + Len(open[k].input.locations) - open[k].i
           IN  Sum(Len(open))

\* rejected: the insert the database rejects, if any (the inserts after it
\* fail whatever they are, in the aborted transaction).
BulkUploadBegin ==
    \E input \in OverlapCaller.bulk :
      \E rejected \in {{}} \cup {{k} : k \in 1..Len(input.locations)} :
        /\ calls < OverlapCaller.calls
        /\ Len(open) < MaxOpen
        /\ idSeq + Pending + Len(input.locations) <= OverlapCaller.ids
        /\ bulkUploadInputSchema(input)
        /\ open' = Append(open, Begin(input, rejected, now))
        /\ calls' = calls + 1
        /\ now' = now + CallMicros
        /\ UNCHANGED <<locationsTable, idSeq, request, response, returnedIds, log>>
        /\ UNCHANGED clientVars

BulkUploadInsert ==
    \E k \in DOMAIN open :
        /\ open[k].i < Len(open[k].input.locations)
        /\ LET done == trxInsert(locationsTable, open[k], idSeq)
           IN  /\ locationsTable' = done.table
               /\ idSeq' = done.idSeq
               /\ open' = [open EXCEPT ![k] = done.txn]
        /\ UNCHANGED <<now, request, response, calls, returnedIds, log>>
        /\ UNCHANGED clientVars

\* The callback has returned: COMMIT, and the handler returns its response.
BulkUploadCommit ==
    \E k \in DOMAIN open :
        LET t == open[k]
            resp == Returned(BulkUploadResponse(t.st))
        IN  /\ t.i = Len(t.input.locations)
            /\ locationsTable' = Commit(locationsTable, t.st)
            /\ open' = RemoveAt(open, k)
            /\ request' = [op |-> "bulkUploadLocations", input |-> t.input,
                           rejected |-> t.rejected]
            /\ response' = resp
            /\ log' = Logged("bulkUploadLocations", t.input, t.rejected, t.dbNow, t.seqs, resp)
            /\ UNCHANGED <<idSeq, now, calls, returnedIds>>
            /\ UNCHANGED clientVars

OverlapCreateLocation == Pending < OverlapCaller.ids - idSeq /\ CreateLocationBy(OverlapCaller)
OverlapUpdateLocation == UpdateLocationBy(OverlapCaller)
OverlapDeleteLocation == DeleteLocationBy(OverlapCaller)

NextOverlap ==
    \/ OverlapCreateLocation
    \/ OverlapUpdateLocation
    \/ OverlapDeleteLocation
    \/ BulkUploadBegin
    \/ BulkUploadInsert
    \/ BulkUploadCommit

InitOverlap == Started(TRUE) /\ NoBrowser

SpecOverlap == InitOverlap /\ [][NextOverlap]_vars


\* Writes that overlap: the handler of an updateLocation call builds its
\* update object, with new Date(), and then awaits its one statement, and
\* other calls run meanwhile.  The database executes every statement.
WriteCaller ==
    Callers({RowD},
            {[id |-> 1, set |-> u] :
                u \in {Restrict(RowB, {"name"}), Restrict(RowA, {"address"}),
                       Restrict(RowB, {"latitude", "longitude"}),
                       Restrict(RowB, {"snow_load"})}},
            {[id |-> 1]}, {[id |-> 1]}, {[locations |-> <<RowD, RowB>>]},
            MaxOverlap, MaxOverlapId, FALSE)

\* updateLocation up to its await: the input passed its schema, and the
\* update object holds the time of new Date().
UpdateLocationBegin ==
    \E input \in WriteCaller.update :
        /\ calls < WriteCaller.calls
        /\ Len(open) < MaxOpen
        /\ updateLocationInputSchema(input)
        /\ open' = Append(open, [input |-> input, appNow |-> now])
        /\ calls' = calls + 1
        /\ now' = now + CallMicros
        /\ UNCHANGED <<locationsTable, idSeq, request, response, returnedIds, log>>
        /\ UNCHANGED clientVars

\* The UPDATE of a call in progress runs on the table as it is now, and the
\* handler returns.
UpdateLocationExecute ==
    \E k \in DOMAIN open :
        LET t == open[k]
            done == updateLocation(t.input, locationsTable, idSeq, t.appNow, FALSE)
        IN  /\ locationsTable' = done.table
            /\ open' = RemoveAt(open, k)
            /\ request' = [op |-> "updateLocation", input |-> t.input, rejected |-> {}]
            /\ response' = done.response
            /\ log' = Logged("updateLocation", t.input, {}, t.appNow, <<idSeq>>,
                             done.response)
            /\ UNCHANGED <<idSeq, now, calls, returnedIds>>
            /\ UNCHANGED clientVars

WriteCreateLocation == CreateLocationBy(WriteCaller)
WriteUpdateLocation == UpdateLocationBy(WriteCaller)
WriteDeleteLocation == DeleteLocationBy(WriteCaller)
WriteBulkUploadLocations == BulkUploadLocationsBy(WriteCaller)
WriteGetLocationById == GetLocationByIdBy(WriteCaller)

NextWrites ==
    \/ WriteCreateLocation
    \/ WriteUpdateLocation
    \/ WriteDeleteLocation
    \/ WriteBulkUploadLocations
    \/ WriteGetLocationById
    \/ UpdateLocationBegin
    \/ UpdateLocationExecute

SpecWrites == InitOverlap /\ [][NextWrites]_vars

\* ------------------------------------------------------------ LocationMap
\* The component computes with JavaScript numbers.  Here a coordinate is a
\* whole number of twentieths of a degree, and a position on the map a
\* fraction [n, d], d >= 0: n/0 is Infinity, -Infinity or, for n = 0, NaN.
Twentieths(x) == Signed(x.neg, x.u) \div (Scale7 \div 20)

Max(S) == CHOOSE m \in S : \A x \in S : x <= m
Min(S) == CHOOSE m \in S : \A x \in S : m <= x

Ratio(n, d) == [n |-> n, d |-> d]
IsNaN(r) == r.n = 0 /\ r.d = 0
Times(r, k) == Ratio(r.n * k, r.d)
Plus(k, r) == IF r.d = 0 THEN r ELSE Ratio(k * r.d + r.n, r.d)
Less(r, k) == IF r.d = 0 THEN r.n < 0 ELSE r.n < k * r.d
Greater(r, k) == IF r.d = 0 THEN r.n > 0 ELSE r.n > k * r.d
\* Math.max(k, r) and Math.min(k, r): NaN when r is.
MathMax(k, r) == IF IsNaN(r) THEN r ELSE IF Less(r, k) THEN Ratio(k, 1) ELSE r
MathMin(k, r) == IF IsNaN(r) THEN r ELSE IF Greater(r, k) THEN Ratio(k, 1) ELSE r

mapWidth == 800
mapHeight == 500
padding == 50
\* 0.1 degrees
Tenth == 2

\* useMemo(() => ..., [locations]): the bounds of the locations (the centre
\* and the zoom that go with them are read nowhere).
mapData(locations) ==
    IF Len(locations) = 0
    THEN [bounds |-> DefaultBounds]
    ELSE LET lats == {Twentieths(locations[k].latitude) : k \in DOMAIN locations}
             lngs == {Twentieths(locations[k].longitude) : k \in DOMAIN locations}
         IN  [bounds |-> [north |-> Max(lats), south |-> Min(lats),
                          east |-> Max(lngs), west |-> Min(lngs)]]

\* OrTenth gone wrong: the range as it is, zero too.
OrItself(range) == range

\* range || 0.1
OrTenth(range) == IF range = 0 THEN Tenth ELSE range

getMarkerPosition(location, bounds) ==
    LET latRange == OrTenth(bounds.north - bounds.south)
        lngRange == OrTenth(bounds.east - bounds.west)
        x == Plus(padding, Times(Ratio(Twentieths(location.longitude) - bounds.west, lngRange),
                                 mapWidth - 2 * padding))
        y == Plus(padding, Times(Ratio(bounds.north - Twentieths(location.latitude), latRange),
                                 mapHeight - 2 * padding))
    IN  [x |-> MathMax(padding, MathMin(mapWidth - padding, x)),
         y |-> MathMax(padding, MathMin(mapHeight - padding, y))]

\* The locations the map is given: up to MaxMarkers records as the server
\* returns them.
MapLatitudes == {Num(TRUE, 90 * Scale7, 0), Num(FALSE, 407000000, 0), Num(FALSE, 407500000, 0)}
MapLongitudes == {Num(TRUE, 180 * Scale7, 0), Num(TRUE, 740000000, 0), Num(FALSE, 500000, 0)}

MapLocation(id, lat, lon) ==
    Location(InsertedRow(id, CsvLocation("A", NULL, lat, lon, 0, 25, 1), 0))

MapLocationLists ==
    UNION {{[k \in 1..n |-> MapLocation(k, p[k][1], p[k][2])] :
               p \in [1..n -> MapLatitudes \X MapLongitudes]} : n \in 0..MaxMarkers}

\* The component renders: a marker for every location of its list.
RenderLocationMap ==
    /\ ~map.drawn
    /\ LET bounds == mapData(app.locations).bounds
       IN  map' = [drawn |-> TRUE, bounds |-> bounds,
                   markers |-> [k \in DOMAIN app.locations |->
                                   getMarkerPosition(app.locations[k], bounds)]]
    /\ UNCHANGED <<locationsTable, idSeq, now, request, response, calls, returnedIds,
                   open, log, rpc, timers, app, form, table, upload>>

InitMap ==
    /\ Started(FALSE)
    /\ rpc = <<>>
    /\ timers = NoTimers
    /\ app \in {[AppMounted EXCEPT !.locations = l, !.isLoading = FALSE,
                                   !.hasAttemptedLoad = TRUE] : l \in MapLocationLists}
    /\ form = LocationFormMounted
    /\ table = LocationTableMounted
    /\ upload = BulkUploadMounted
    /\ map = NothingDrawn

SpecMap == InitMap /\ [][RenderLocationMap]_vars

\* ---------------------------------------------------- BulkUpload: the file
\* The text of a file is its lines, a line its cells (the text between its
\* commas), a cell its characters.  A header word counts as one character,
\* a letter like x.
Quote == "\""
Chars == {Quote, " ", "-", "0", "1", "8", "9", "x"}
DigitValue == ("0" :> 0) @@ ("1" :> 1) @@ ("8" :> 8) @@ ("9" :> 9)

RECURSIVE Text(_)
Text(s) == IF Len(s) = 0 THEN "" ELSE Head(s) \o Text(Tail(s))

\* v.replace(/"/g, '')
Unquote(s) == SelectSeq(s, LAMBDA c : c # Quote)

\* v.trim()
RECURSIVE TrimStart(_)
TrimStart(s) == IF Len(s) > 0 /\ Head(s) = " " THEN TrimStart(Tail(s)) ELSE s
RECURSIVE TrimEnd(_)
TrimEnd(s) == IF Len(s) > 0 /\ s[Len(s)] = " " THEN TrimEnd(SubSeq(s, 1, Len(s) - 1)) ELSE s
Trim(s) == TrimEnd(TrimStart(s))

\* line.split(',').map(v => v.replace(/"/g, '').trim())
Cleaned(line) == [k \in DOMAIN line |-> Trim(Unquote(line[k]))]

\* A JavaScript number: NaN or, here, an integer.
NaN == [nan |-> TRUE, value |-> 0]
Number(n) == [nan |-> FALSE, value |-> n]

\* The digits s begins with, and the number they write.
RECURSIVE DigitPrefix(_)
DigitPrefix(s) ==
    IF Len(s) > 0 /\ Head(s) \in DOMAIN DigitValue
    THEN <<Head(s)>> \o DigitPrefix(Tail(s))
    ELSE <<>>
RECURSIVE Decimal(_)
Decimal(digits) ==
    IF Len(digits) = 0 THEN 0
    ELSE 10 * Decimal(SubSeq(digits, 1, Len(digits) - 1)) + DigitValue[digits[Len(digits)]]

\* parseFloat(v): the number v begins with, after white space; NaN when it
\* begins with none.
parseFloat(s) ==
    LET t == TrimStart(s)
        neg == Len(t) > 0 /\ Head(t) = "-"
        digits == DigitPrefix(IF neg THEN Tail(t) ELSE t)
    IN  IF Len(digits) = 0 THEN NaN ELSE Number(Signed(neg, Decimal(digits)))

expectedHeaders ==
    <<"name", "address", "latitude", "longitude", "snow_load", "wind_speed", "seismic_load">>

RowError(i, reason, value) == [row |-> i + 1, reason |-> reason, value |-> value]

\* values[1] gone wrong: the cell itself, without || null.
OrEmpty(s) == s

\* values[1] || null
OrNull(s) == IF s = "" THEN NULL ELSE s

\* isNaN(v) || v < -k || v > k
Outside(v, k) == v.nan \/ v.value < 0 - k \/ v.value > k

\* Negative gone wrong: v < 0 without isNaN(v).
NegativeNumber(v) == v.value < 0

\* isNaN(v) || v < 0
Negative(v) == v.nan \/ v.value < 0

\* The body of the loop for line i (counted from 0, the header): the row
\* of the line, or the error that skips it.
ParsedRow(i, line) ==
    LET values == Cleaned(line)
        row == CsvLocation(Text(values[1]), OrNull(Text(values[2])),
                           parseFloat(values[3]), parseFloat(values[4]),
                           parseFloat(values[5]), parseFloat(values[6]),
                           parseFloat(values[7]))
    IN  IF Len(values) < Len(expectedHeaders)
        THEN [valid |-> FALSE, error |-> RowError(i, "Insufficient columns", "")]
        ELSE IF row.name = ""
        THEN [valid |-> FALSE, error |-> RowError(i, "Name is required", "")]
        ELSE IF Outside(row.latitude, 90)
        THEN [valid |-> FALSE, error |-> RowError(i, "Invalid latitude", Text(values[3]))]
        ELSE IF Outside(row.longitude, 180)
        THEN [valid |-> FALSE, error |-> RowError(i, "Invalid longitude", Text(values[4]))]
        ELSE IF Negative(row.snow_load)
        THEN [valid |-> FALSE, error |-> RowError(i, "Invalid snow load", Text(values[5]))]
        ELSE IF Negative(row.wind_speed)
        THEN [valid |-> FALSE, error |-> RowError(i, "Invalid wind speed", Text(values[6]))]
        ELSE IF Negative(row.seismic_load)
        THEN [valid |-> FALSE, error |-> RowError(i, "Invalid seismic load", Text(values[7]))]
        ELSE [valid |-> TRUE, row |-> row]

RECURSIVE ParseLoop(_, _, _)
ParseLoop(data, i, lines) ==
    IF i < Len(lines)
    THEN LET parsed == ParsedRow(i, lines[i + 1])
         IN  ParseLoop(IF parsed.valid
                       THEN [data EXCEPT !.validRows = Append(@, parsed.row)]
                       ELSE [data EXCEPT !.errors = Append(@, parsed.error)],
                       i + 1, lines)
    ELSE data

Resolved(data) == [ok |-> TRUE, data |-> data]
\* new Error(`${message}${detail}`)
Rejected(message, detail) == [ok |-> FALSE, message |-> message, detail |-> detail]

\* missingHeaders.join(', ')
RECURSIVE Joined(_)
Joined(s) ==
    IF Len(s) = 0 THEN ""
    ELSE IF Len(s) = 1 THEN s[1]
    ELSE s[1] \o ", " \o Joined(Tail(s))

\* line.trim() !== ''
NotBlank(line) == Len(line) > 1 \/ Len(Trim(line[1])) > 0

\* parseCsvFile: what its promise resolves to, or is rejected with.
\* unreadable: the FileReader fails.
parseCsvFile(file, unreadable) ==
    IF unreadable THEN Rejected("Failed to read file", "")
    ELSE LET lines == SelectSeq(file.lines, NotBlank)
         IN  IF Len(lines) < 2
             THEN Rejected("CSV file must contain at least a header and one data row", "")
             ELSE LET headers == Cleaned(lines[1])
                      missingHeaders ==
                          SelectSeq(expectedHeaders,
                                    LAMBDA h : \A k \in DOMAIN headers : Text(headers[k]) # h)
                  IN  IF Len(missingHeaders) > 0
                      THEN Rejected("Missing required headers: ", Joined(missingHeaders))
                      ELSE Resolved(ParseLoop([shown |-> TRUE, validRows |-> <<>>,
                                               errors |-> <<>>, totalRows |-> Len(lines) - 1],
                                              1, lines))

\* A row of validRows as bulkUploadLocations receives it: the numbers the
\* parser read, whole ones, in the units of the server's schema.
Degrees(v) == Num(v.value < 0, (IF v.value < 0 THEN 0 - v.value ELSE v.value) * Scale7, 0)
Sent(row) ==
    CsvLocation(row.name, row.address, Degrees(row.latitude), Degrees(row.longitude),
                row.snow_load.value, row.wind_speed.value, row.seismic_load.value)
SentRows(rows) == [k \in DOMAIN rows |-> Sent(rows[k])]

\* file.name.toLowerCase(), of the name's extension.
LowerCase == ("csv" :> "csv") @@ ("CSV" :> "csv") @@ ("txt" :> "txt")

\* An error of the file, not of a row of it (row 0).
Unparsed(message, detail) ==
    [shown |-> TRUE, validRows |-> <<>>, totalRows |-> 0,
     errors |-> <<[row |-> 0, reason |-> message, value |-> detail]>>]

\* handleFileChange up to its await: the user chose a file (while no other
\* file is being read).
HandleFileChangeOf(files) ==
    \E file \in files :
        /\ Len(upload.reading) = 0
        /\ upload' = IF LowerCase[file.extension] # "csv"
                     THEN [upload EXCEPT !.file = file.name,
                                         !.parsedData = Unparsed("Please select a CSV file", "")]
                     ELSE [upload EXCEPT !.file = file.name,
                                         !.uploadResult = NoUploadResult,
                                         !.uploadProgress = 0,
                                         !.reading = Append(@, file)]
        /\ UNCHANGED <<locationsTable, idSeq, now, request, response, calls, returnedIds,
                       open, log, rpc, timers, app, form, table, map>>

\* The FileReader has finished: parseCsvFile settles and handleFileChange
\* sets parsedData.
FileLoaded ==
    \E unreadable \in BOOLEAN :
        /\ Len(upload.reading) > 0
        /\ LET result == parseCsvFile(Head(upload.reading), unreadable)
           IN  upload' = [upload EXCEPT !.reading = Tail(@),
                                        !.parsedData = IF result.ok THEN result.data
                                                       ELSE Unparsed(result.message, result.detail)]
        /\ UNCHANGED <<locationsTable, idSeq, now, request, response, calls, returnedIds,
                       open, log, rpc, timers, app, form, table, map>>

\* The page is shown: the first load of the locations has returned them.
PageShown(locations) ==
    /\ rpc = <<>>
    /\ timers = NoTimers
    /\ app = [AppMounted EXCEPT !.locations = locations, !.isLoading = FALSE,
                                !.hasAttemptedLoad = TRUE]
    /\ form = LocationFormMounted
    /\ table = LocationTableMounted
    /\ upload = BulkUploadMounted
    /\ map = NothingDrawn

\* The files the parser is given.  A data line is the line of a valid row
\* with any one of its cells replaced by any text of up to MaxCell
\* characters, or a line with a column less or more, or a blank line.
Cells(n) == UNION {[1..k -> Chars] : k \in 0..n}

GoodLine == << <<"x">>, <<"x", " ", "8">>, <<"1">>, <<"-", "8">>, <<"0">>, <<"1">>, <<"9">> >>
ShortLine == SubSeq(GoodLine, 1, 6)
LongLine == GoodLine \o << <<"x">> >>
BlankLine == << <<" ">> >>
NoAddressLine == [GoodLine EXCEPT ![2] = <<Quote, Quote>>]
BadLatitudeLine == [GoodLine EXCEPT ![3] = <<"9", "1">>]
BadLongitudeLine == [GoodLine EXCEPT ![4] = <<"1", "8", "1">>]
EdgeLine == [GoodLine EXCEPT ![3] = <<"-", "9", "0">>, ![4] = <<"1", "8", "0">>]

VariedLines == {[GoodLine EXCEPT ![p] = c] : p \in 1..7, c \in Cells(MaxCell)}
FewLines ==
    {GoodLine, ShortLine, LongLine, BlankLine, NoAddressLine, BadLatitudeLine,
     BadLongitudeLine, EdgeLine}

Header == [k \in 1..7 |-> <<expectedHeaders[k]>>]
QuotedHeader == [k \in 1..7 |-> <<Quote, expectedHeaders[k], Quote, " ">>]
ShortHeader == SubSeq(Header, 1, 6)
NoAddressHeader == [Header EXCEPT ![2] = <<"x">>]
AddressFirstHeader == [Header EXCEPT ![1] = <<"address">>, ![2] = <<"name">>]
LongHeader == << <<"x">> >> \o Header
Headers == {Header, QuotedHeader, ShortHeader, NoAddressHeader, AddressFirstHeader, LongHeader}

File(name, extension, lines) == [name |-> name, extension |-> extension, lines |-> lines]

CsvFiles ==
    {File("a", "csv", <<Header, line>>) : line \in VariedLines}
        \cup {File("b", "csv", <<h>> \o lines) :
                 h \in Headers, lines \in SeqsUpTo(FewLines, MaxLines)}
        \cup {File("c", e, <<Header, GoodLine>>) : e \in DOMAIN LowerCase}
        \cup {File("d", "csv", lines) : lines \in SeqsUpTo({BlankLine}, 1)}

\* resetForm: the Clear button, shown while parsedData is.
ResetForm ==
    /\ upload.parsedData.shown
    /\ upload' = [upload EXCEPT !.parsedData = NoParsedData,
                                !.uploadResult = NoUploadResult,
                                !.uploadProgress = 0,
                                !.file = NULL]
    /\ UNCHANGED <<locationsTable, idSeq, now, request, response, calls, returnedIds,
                   open, log, rpc, timers, app, form, table, map>>

\* The user chooses a file while none is shown.
ChooseCsvFile == ~upload.parsedData.shown /\ HandleFileChangeOf(CsvFiles)

NextCsv ==
    \/ ChooseCsvFile
    \/ FileLoaded
    \/ ResetForm

InitCsv == Started(FALSE) /\ PageShown(<<>>)

SpecCsv == InitCsv /\ [][NextCsv]_vars

\* ------------------------------------------------- the page: calls in flight
\* The page is App with its LocationForm, LocationTable and BulkUpload.  A
\* handler runs to its await in one step and sends a call; the server
\* answers the calls in flight in any order, or the network drops one; the
\* rest of the handler runs, in one step, when its call has been answered.
\* A call keeps what the rest of its handler reads: its closure.
NetworkError == "fetch failed"

Call(op, input, closure) ==
    [op |-> op, input |-> input, stage |-> "sent", response |-> [kind |-> "none"],
     closure |-> closure]

InFlight == {k \in DOMAIN rpc : rpc[k].stage = "sent"}

\* App draws its tabs, and not the loading screen.
PageVisible == ~(app.isLoading /\ ~app.hasAttemptedLoad)

\* The user can act, and a handler can send a call.
CanSend ==
    /\ PageVisible
    /\ Len(rpc) < MaxInFlight
    /\ calls + Cardinality(InFlight) < MaxPageCalls

AnsweredCalls(op, kind) ==
    {k \in DOMAIN rpc : rpc[k].op = op /\ rpc[k].stage = "answered"
                        /\ rpc[k].response.kind = kind}

\* The server runs the procedure of a call in flight and answers it.
Serve(k, valid, outcome) ==
    /\ calls < MaxPageCalls
    /\ IF valid THEN Handled(rpc[k].op, rpc[k].input, {}, outcome)
                ELSE Refused(rpc[k].op, rpc[k].input)
    /\ rpc' = [rpc EXCEPT ![k].stage = "answered",
                          ![k].response = IF valid THEN outcome.response
                                          ELSE Thrown(ValidationError)]
    /\ UNCHANGED <<timers, app, form, table, upload, map>>

SentCalls(op) == {k \in InFlight : rpc[k].op = op}

ServeGetLocations ==
    \E k \in SentCalls("getLocations"), order \in orderByDescCreatedAt(locationsTable) :
        Serve(k, TRUE, getLocations(locationsTable, idSeq, order, FALSE))

ServeCreateLocation ==
    \E k \in SentCalls("createLocation") :
        /\ idSeq < MaxPageIds
        /\ Serve(k, createLocationInputSchema(rpc[k].input),
                 createLocation(rpc[k].input, locationsTable, idSeq, now, FALSE))

ServeUpdateLocation ==
    \E k \in SentCalls("updateLocation") :
        Serve(k, updateLocationInputSchema(rpc[k].input),
              updateLocation(rpc[k].input, locationsTable, idSeq, now, FALSE))

ServeDeleteLocation ==
    \E k \in SentCalls("deleteLocation") :
        Serve(k, TRUE, deleteLocation(rpc[k].input, locationsTable, idSeq, FALSE))

ServeBulkUploadLocations ==
    \E k \in SentCalls("bulkUploadLocations") :
        /\ idSeq + Len(rpc[k].input.locations) <= MaxPageIds
        /\ Serve(k, bulkUploadInputSchema(rpc[k].input),
                 bulkUploadLocations(rpc[k].input, locationsTable, idSeq, now, {}))

\* The network drops a call in flight: its mutate or query throws.
CallLost ==
    \E k \in InFlight :
        /\ calls < MaxPageCalls
        /\ calls' = calls + 1
        /\ rpc' = [rpc EXCEPT ![k].stage = "answered", ![k].response = Thrown(NetworkError)]
        /\ UNCHANGED <<locationsTable, idSeq, now, request, response, returnedIds, open, log,
                       timers, app, form, table, upload, map>>

\* -------------------------------------------------------------- the page: App
\* The sample locations of the offline mode.  Loads are whole numbers in the
\* model: 2.4, 30.5 and 0.8 are written 2, 30 and 0.
SampleDate == 0
sampleLocations ==
    << [id |-> 1, name |-> "Downtown Office Building", address |-> "123 Main St, New York, NY",
        latitude |-> Num(FALSE, 407128000, 0), longitude |-> Num(TRUE, 740060000, 0),
        snow_load |-> 2, wind_speed |-> 30, seismic_load |-> 0,
        created_at |-> SampleDate, updated_at |-> SampleDate],
       [id |-> 2, name |-> "Industrial Warehouse", address |-> "456 Industrial Blvd, Brooklyn, NY",
        latitude |-> Num(FALSE, 406782000, 0), longitude |-> Num(TRUE, 739442000, 0),
        snow_load |-> 1, wind_speed |-> 25, seismic_load |-> 0,
        created_at |-> SampleDate, updated_at |-> SampleDate],
       [id |-> 3, name |-> "Residential Complex", address |-> "789 Oak Avenue, Queens, NY",
        latitude |-> Num(FALSE, 407282000, 0), longitude |-> Num(TRUE, 737949000, 0),
        snow_load |-> 2, wind_speed |-> 28, seismic_load |-> 0,
        created_at |-> SampleDate, updated_at |-> SampleDate] >>

\* The effect that adds the sample data, run after a change of App's state.
Effects(a) ==
    IF a.backendError /\ Len(a.locations) = 0 /\ a.hasAttemptedLoad
    THEN [a EXCEPT !.locations = sampleLocations]
    ELSE a

\* loadLocations to its await.  mount: called by the effect of the mount,
\* which sets hasAttemptedLoad after it.
LoadLocations(a) == Effects([a EXCEPT !.isLoading = TRUE, !.backendError = FALSE])
GetLocationsCall(mount) == Call("getLocations", NULL, [mount |-> mount])

\* loadLocations after its await: the query returned.
LoadLocationsReturned ==
    \E k \in AnsweredCalls("getLocations", "ok") :
        /\ app' = Effects([app EXCEPT !.locations = rpc[k].response.value,
                                      !.isLoading = FALSE,
                                      !.hasAttemptedLoad = @ \/ rpc[k].closure.mount])
        /\ rpc' = RemoveAt(rpc, k)
        /\ UNCHANGED <<locationsTable, idSeq, now, request, response, calls, returnedIds,
                       open, log, timers, form, table, upload, map>>

\* loadLocations after its await: the query threw.
LoadLocationsThrew ==
    \E k \in AnsweredCalls("getLocations", "error") :
        /\ app' = Effects([app EXCEPT !.backendError = TRUE,
                                      !.locations = <<>>,
                                      !.isLoading = FALSE,
                                      !.hasAttemptedLoad = @ \/ rpc[k].closure.mount])
        /\ rpc' = RemoveAt(rpc, k)
        /\ UNCHANGED <<locationsTable, idSeq, now, request, response, calls, returnedIds,
                       open, log, timers, form, table, upload, map>>

\* ------------------------------------------------------- the page: BulkUpload
\* A timer of the page: what its callback does and the closure it reads.
Timeout(callback, closure) == [callback |-> callback, closure |-> closure]

\* setInterval(...): an id no running interval has.
NewInterval == CHOOSE n \in 1..(Cardinality(timers.intervals) + 1) : n \notin timers.intervals

\* The files the user of the page chooses.
PageFiles ==
    {File("a", "csv", <<Header, GoodLine>>),
     File("b", "csv", <<Header, EdgeLine, BadLatitudeLine>>),
     File("c", "txt", <<Header, GoodLine>>)}

ChoosePageFile == PageVisible /\ HandleFileChangeOf(PageFiles)

\* handleUpload to its await.
HandleUpload ==
    /\ upload.parsedData.shown
    /\ Len(upload.parsedData.validRows) > 0
    /\ ~upload.isUploading
    /\ CanSend
    /\ upload' = [upload EXCEPT !.isUploading = TRUE,
                                !.uploadProgress = 0,
                                !.uploadResult = NoUploadResult]
    /\ timers' = [timers EXCEPT !.intervals = @ \cup {NewInterval}]
    /\ rpc' = Append(rpc, Call("bulkUploadLocations",
                               [locations |-> SentRows(upload.parsedData.validRows)],
                               [progressInterval |-> NewInterval,
                                parsedData |-> upload.parsedData]))
    /\ UNCHANGED <<locationsTable, idSeq, now, request, response, calls, returnedIds,
                   open, log, app, form, table, map>>

\* The callback of a progress interval.
ProgressInterval ==
    /\ timers.intervals # {}
    /\ upload' = [upload EXCEPT !.uploadProgress = Min({@ + 10, 90})]
    /\ UNCHANGED <<locationsTable, idSeq, now, request, response, calls, returnedIds,
                   open, log, rpc, timers, app, form, table, map>>

UploadResult(r) ==
    [shown |-> TRUE, success |-> r.success, created_count |-> r.created_count,
     errors |-> IF "errors" \in DOMAIN r THEN r.errors ELSE <<>>]

\* handleUpload after its await: the mutation returned.  onUploadSuccess is
\* App's handleBulkUploadSuccess: loadLocations().
UploadReturned ==
    \E k \in AnsweredCalls("bulkUploadLocations", "ok") :
        LET r == rpc[k].response.value
        IN  /\ upload' = [upload EXCEPT !.uploadProgress = 100,
                                        !.uploadResult = UploadResult(r),
                                        !.isUploading = FALSE]
            /\ timers' = [timers EXCEPT
                             !.intervals = @ \ {rpc[k].closure.progressInterval},
                             !.timeouts = IF r.success
                                          THEN Append(@, Timeout("resetUpload", rpc[k].closure))
                                          ELSE @]
            /\ app' = IF r.success THEN LoadLocations(app) ELSE app
            /\ rpc' = IF r.success THEN Append(RemoveAt(rpc, k), GetLocationsCall(FALSE))
                                   ELSE RemoveAt(rpc, k)
            /\ UNCHANGED <<locationsTable, idSeq, now, request, response, calls, returnedIds,
                           open, log, form, table, map>>

UploadFailed ==
    [shown |-> TRUE, success |-> FALSE, created_count |-> 0,
     errors |-> <<[row |-> 0, name |-> "", reason |-> "Upload failed"]>>]

\* handleUpload after its await: the mutation threw.
UploadThrew ==
    \E k \in AnsweredCalls("bulkUploadLocations", "error") :
        /\ upload' = [upload EXCEPT !.uploadResult = UploadFailed, !.isUploading = FALSE]
        /\ rpc' = RemoveAt(rpc, k)
        /\ UNCHANGED <<locationsTable, idSeq, now, request, response, calls, returnedIds,
                       open, log, timers, app, form, table, map>>

\* The timeouts all wait 3000 ms: they run in the order they were set.
Due(callback) == Len(timers.timeouts) > 0 /\ Head(timers.timeouts).callback = callback

\* The callback of the timeout handleUpload sets after a successful upload.
ResetUploadTimeout ==
    /\ Due("resetUpload")
    /\ timers' = [timers EXCEPT !.timeouts = Tail(@)]
    /\ upload' = [upload EXCEPT !.parsedData = NoParsedData,
                                !.uploadResult = NoUploadResult,
                                !.uploadProgress = 0,
                                !.file = NULL]
    /\ UNCHANGED <<locationsTable, idSeq, now, request, response, calls, returnedIds,
                   open, log, rpc, app, form, table, map>>

\* ----------------------------------------------------- the page: LocationForm
\* What the user types into the form; the inputs let only a name and
\* numbers within their min and max be submitted.
FormInputs == {RowA}

ChangeFormData ==
    \E data \in FormInputs :
        /\ PageVisible
        /\ form.formData # data
        /\ form' = [form EXCEPT !.formData = data]
        /\ UNCHANGED <<locationsTable, idSeq, now, request, response, calls, returnedIds,
                       open, log, rpc, timers, app, table, upload, map>>

CreateFailed == "Failed to create location"
CreateSucceeded == "Location created successfully"

\* handleSubmit to its await.
HandleSubmit ==
    /\ ~form.isLoading
    /\ form.formData.name # ""
    /\ CanSend
    /\ form' = [form EXCEPT !.isLoading = TRUE, !.error = NULL, !.success = NULL]
    /\ rpc' = Append(rpc, Call("createLocation", form.formData, [formData |-> form.formData]))
    /\ UNCHANGED <<locationsTable, idSeq, now, request, response, calls, returnedIds,
                   open, log, timers, app, table, upload, map>>

\* handleSubmit after its await: the mutation returned.  onLocationCreated
\* is App's handleLocationCreated.
SubmitReturned ==
    \E k \in AnsweredCalls("createLocation", "ok") :
        /\ app' = Effects([app EXCEPT !.locations = Append(@, rpc[k].response.value)])
        /\ form' = [form EXCEPT !.success = CreateSucceeded,
                                !.formData = EmptyFormData,
                                !.isLoading = FALSE]
        /\ timers' = [timers EXCEPT !.timeouts = Append(@, Timeout("clearSuccess", <<>>))]
        /\ rpc' = RemoveAt(rpc, k)
        /\ UNCHANGED <<locationsTable, idSeq, now, request, response, calls, returnedIds,
                       open, log, table, upload, map>>

\* handleSubmit after its await: the mutation threw.
SubmitThrew ==
    \E k \in AnsweredCalls("createLocation", "error") :
        /\ form' = [form EXCEPT !.error = CreateFailed, !.isLoading = FALSE]
        /\ rpc' = RemoveAt(rpc, k)
        /\ UNCHANGED <<locationsTable, idSeq, now, request, response, calls, returnedIds,
                       open, log, timers, app, table, upload, map>>

\* The callback of the timeout handleSubmit sets after a creation.
ClearSuccessTimeout ==
    /\ Due("clearSuccess")
    /\ timers' = [timers EXCEPT !.timeouts = Tail(@)]
    /\ form' = [form EXCEPT !.success = NULL]
    /\ UNCHANGED <<locationsTable, idSeq, now, request, response, calls, returnedIds,
                   open, log, rpc, app, table, upload, map>>

\* ---------------------------------------------------- the page: LocationTable
Listed == {app.locations[k] : k \in DOMAIN app.locations}

\* The edit dialog of a listed location is open.
DialogOpen ==
    table.isEditDialogOpen /\ \E location \in Listed : location.id = table.editingLocation.id

\* handleEdit: the Edit button of a row.
HandleEdit ==
    \E location \in Listed :
        /\ PageVisible
        /\ ~DialogOpen
        /\ table' = [table EXCEPT !.editingLocation = location,
                                  !.editFormData = [id |-> location.id,
                                                    set |-> Restrict(location, MutableFields)],
                                  !.isEditDialogOpen = TRUE]
        /\ UNCHANGED <<locationsTable, idSeq, now, request, response, calls, returnedIds,
                       open, log, rpc, timers, app, form, upload, map>>

\* What the user types into the dialog, whose inputs have no min or max.
EditInputs == {[latitude |-> Lat200]}

ChangeEditFormData ==
    \E e \in EditInputs :
        /\ DialogOpen
        /\ \E f \in DOMAIN e : table.editFormData.set[f] # e[f]
        /\ table' = [table EXCEPT !.editFormData.set =
                        [f \in MutableFields |-> IF f \in DOMAIN e THEN e[f] ELSE @[f]]]
        /\ UNCHANGED <<locationsTable, idSeq, now, request, response, calls, returnedIds,
                       open, log, rpc, timers, app, form, upload, map>>

\* The Cancel button of the dialog.
CancelEdit ==
    /\ DialogOpen
    /\ table' = [table EXCEPT !.isEditDialogOpen = FALSE]
    /\ UNCHANGED <<locationsTable, idSeq, now, request, response, calls, returnedIds,
                   open, log, rpc, timers, app, form, upload, map>>

UpdateFailed == "Failed to update location. Please try again."
DeleteFailed == "Failed to delete location. Please try again."

\* handleUpdate to its await.
HandleUpdate ==
    /\ DialogOpen
    /\ ~table.isUpdating
    /\ CanSend
    /\ table' = [table EXCEPT !.isUpdating = TRUE, !.error = NULL]
    /\ rpc' = Append(rpc, Call("updateLocation", table.editFormData,
                               [editFormData |-> table.editFormData]))
    /\ UNCHANGED <<locationsTable, idSeq, now, request, response, calls, returnedIds,
                   open, log, timers, app, form, upload, map>>

\* handleUpdate after its await: the mutation returned.  onLocationUpdated
\* is App's handleLocationUpdated.
UpdateReturned ==
    \E k \in AnsweredCalls("updateLocation", "ok") :
        LET updatedLocation == rpc[k].response.value
        IN  /\ app' = Effects([app EXCEPT !.locations =
                                  [j \in DOMAIN @ |-> IF @[j].id = updatedLocation.id
                                                      THEN updatedLocation ELSE @[j]]])
            /\ table' = [table EXCEPT !.isEditDialogOpen = FALSE,
                                      !.editingLocation = NoLocation,
                                      !.isUpdating = FALSE]
            /\ rpc' = RemoveAt(rpc, k)
            /\ UNCHANGED <<locationsTable, idSeq, now, request, response, calls, returnedIds,
                           open, log, timers, form, upload, map>>

\* handleUpdate after its await: the mutation threw.
UpdateThrew ==
    \E k \in AnsweredCalls("updateLocation", "error") :
        /\ table' = [table EXCEPT !.error = UpdateFailed, !.isUpdating = FALSE]
        /\ rpc' = RemoveAt(rpc, k)
        /\ UNCHANGED <<locationsTable, idSeq, now, request, response, calls, returnedIds,
                       open, log, timers, app, form, upload, map>>

\* handleDelete to its await: the Delete button of a row.
HandleDelete ==
    \E location \in Listed :
        /\ ~table.isDeleting
        /\ CanSend
        /\ table' = [table EXCEPT !.isDeleting = TRUE, !.error = NULL]
        /\ rpc' = Append(rpc, Call("deleteLocation", [id |-> location.id], [id |-> location.id]))
        /\ UNCHANGED <<locationsTable, idSeq, now, request, response, calls, returnedIds,
                       open, log, timers, app, form, upload, map>>

\* handleDelete after its await: the mutation returned.  onLocationDeleted
\* is App's handleLocationDeleted.
DeleteReturned ==
    \E k \in AnsweredCalls("deleteLocation", "ok") :
        /\ app' = Effects([app EXCEPT !.locations =
                              SelectSeq(@, LAMBDA loc : loc.id # rpc[k].closure.id)])
        /\ table' = [table EXCEPT !.isDeleting = FALSE]
        /\ rpc' = RemoveAt(rpc, k)
        /\ UNCHANGED <<locationsTable, idSeq, now, request, response, calls, returnedIds,
                       open, log, timers, form, upload, map>>

\* handleDelete after its await: the mutation threw.
DeleteThrew ==
    \E k \in AnsweredCalls("deleteLocation", "error") :
        /\ table' = [table EXCEPT !.error = DeleteFailed, !.isDeleting = FALSE]
        /\ rpc' = RemoveAt(rpc, k)
        /\ UNCHANGED <<locationsTable, idSeq, now, request, response, calls, returnedIds,
                       open, log, timers, app, form, upload, map>>

\* The Dismiss button of the table's error, drawn when the list is not empty.
DismissError ==
    /\ table.error # NULL
    /\ Len(app.locations) > 0
    /\ table' = [table EXCEPT !.error = NULL]
    /\ UNCHANGED <<locationsTable, idSeq, now, request, response, calls, returnedIds,
                   open, log, rpc, timers, app, form, upload, map>>

\* ------------------------------------------------------------------ the page
\* A browser has opened the page: App has mounted and its effect has called
\* loadLocations.
PageOpened ==
    /\ rpc = <<GetLocationsCall(TRUE)>>
    /\ timers = NoTimers
    /\ app = LoadLocations(AppMounted)
    /\ form = LocationFormMounted
    /\ table = LocationTableMounted
    /\ upload = BulkUploadMounted
    /\ map = NothingDrawn

InitPage == Started(FALSE) /\ PageOpened

\* The user works with the Bulk Upload tab.
NextUpload ==
    \/ ServeGetLocations
    \/ ServeBulkUploadLocations
    \/ CallLost
    \/ LoadLocationsReturned
    \/ LoadLocationsThrew
    \/ ChoosePageFile
    \/ FileLoaded
    \/ ResetForm
    \/ HandleUpload
    \/ ProgressInterval
    \/ UploadReturned
    \/ UploadThrew
    \/ ResetUploadTimeout

SpecUpload == InitPage /\ [][NextUpload]_vars

\* The user works with the Add Location and the Locations tabs.
NextPage ==
    \/ ServeGetLocations
    \/ ServeCreateLocation
    \/ ServeUpdateLocation
    \/ ServeDeleteLocation
    \/ CallLost
    \/ LoadLocationsReturned
    \/ LoadLocationsThrew
    \/ ChangeFormData
    \/ HandleSubmit
    \/ SubmitReturned
    \/ SubmitThrew
    \/ ClearSuccessTimeout
    \/ HandleEdit
    \/ ChangeEditFormData
    \/ CancelEdit
    \/ HandleUpdate
    \/ UpdateReturned
    \/ UpdateThrew
    \/ HandleDelete
    \/ DeleteReturned
    \/ DeleteThrew
    \/ DismissError

SpecPage == InitPage /\ [][NextPage]_vars

\* ------------------------------------------------------- reading a call
\* A step that is an RPC call of procedure op.
Called(op) == calls' = calls + 1 /\ request'.op = op

\* The last call was of procedure op and returned a value.
Answered(op) == request.op = op /\ response.kind = "ok"

\* The rows of a bulk upload whose insert failed: a rejected row and every
\* row after it.
FailedRows(req) ==
    {k \in 1..Len(req.input.locations) : \E j \in req.rejected : j <= k}

\* What the locations table holds of an input row.
Stores(row, values) ==
    /\ row.name = values.name
    /\ row.address = values.address
    /\ row.latitude = ToNumeric(values.latitude)
    /\ row.longitude = ToNumeric(values.longitude)
    /\ row.snow_load = ToReal(values.snow_load)
    /\ row.wind_speed = ToReal(values.wind_speed)
    /\ row.seismic_load = ToReal(values.seismic_load)


\* ----------------------------------------------------------------- claims
\* C1: an updateLocation call on an existing id, with an input the schema
\* admits and a statement the database executes, returns the record; every
\* mutable field absent from the input keeps its pre-update value in the
\* table and in the returned record, and every field present (an explicit
\* null address too) is overwritten with the input's value as its column
\* keeps it.
UpdateKeepsAbsentOverwritesPresent ==
    [][(/\ Called("updateLocation")
        /\ updateLocationInputSchema(request'.input)
        /\ request'.rejected = {}
        /\ request'.input.id \in DOMAIN locationsTable)
       => LET input == request'.input
              pre == locationsTable[input.id]
          IN  /\ response'.kind = "ok"
              /\ input.id \in DOMAIN locationsTable'
              /\ \A f \in MutableFields :
                    LET post == locationsTable'[input.id]
                    IN  /\ response'.value[f] = Location(post)[f]
                        /\ IF f \in DOMAIN input.set
                           THEN post[f] = ColumnValue(f, input.set[f])
                           ELSE post[f] = pre[f]
      ]_vars

\* C1 witness: an update that supplied only address: null has overwritten the
\* address "x" of a record created from RowA and left its name alone.
UpdateSetAddressNull ==
    /\ Answered("updateLocation")
    /\ DOMAIN request.input.set = {"address"}
    /\ request.input.set.address = NULL
    /\ request.input.id \in DOMAIN locationsTable
    /\ locationsTable[request.input.id].address = NULL
    /\ locationsTable[request.input.id].name = "A"
    /\ response.value.latitude = LatA

\* C2: an updateLocation call whose id matches no stored record never
\* returns a Location and leaves the table as it was; the error it throws is
\* "not found" whenever the schema admits the input and the database
\* executes the statement.
UpdateUnknownIdFails ==
    [][(/\ Called("updateLocation")
        /\ request'.input.id \notin DOMAIN locationsTable)
       => /\ response'.kind = "error"
          /\ locationsTable' = locationsTable
          /\ (updateLocationInputSchema(request'.input) /\ request'.rejected = {})
                => response'.error = NotFoundError
      ]_vars

\* C2 witness: "not found" thrown while the table holds another record.
UpdateNotFoundThrown ==
    /\ request.op = "updateLocation"
    /\ response = Thrown(NotFoundError)
    /\ DOMAIN locationsTable # {}
    /\ request.input.id \notin DOMAIN locationsTable


\* The value a bulk upload returned, and its error messages (none when the
\* errors field is omitted).
Errors(v) == IF "errors" \in DOMAIN v THEN v.errors ELSE <<>>

\* The records a step added to the table.
Added == DOMAIN locationsTable' \ DOMAIN locationsTable

\* C3: after a bulkUploadLocations call returns, created_count is the number
\* of records the call added to the table: rows counted as created are not
\* rolled back by a later row's failure.
BulkCreatedCountIsPersisted ==
    [][(Called("bulkUploadLocations") /\ response'.kind = "ok")
       => response'.value.created_count = Cardinality(Added)
      ]_vars

\* C4: a bulk upload of a mixed batch, rows the schema admits and one row
\* with latitude 200, returns created_count = the number of admitted rows,
\* success = true and exactly one error message, which carries the position
\* (from 1) of the row with latitude 200.
BulkMixedBatchPartialSuccess ==
    (/\ request.op = "bulkUploadLocations"
     /\ request.rejected = {}
     /\ LET l == request.input.locations
        IN  /\ Cardinality({k \in 1..Len(l) : l[k].latitude = Lat200}) = 1
            /\ \E k \in 1..Len(l) : csvLocationSchema(l[k])
            /\ \A k \in 1..Len(l) : csvLocationSchema(l[k]) \/ l[k].latitude = Lat200)
    => LET l == request.input.locations
       IN  /\ response.kind = "ok"
           /\ response.value.success
           /\ response.value.created_count = Len(l) - 1
           /\ Len(Errors(response.value)) = 1
           /\ l[Errors(response.value)[1].row].latitude = Lat200

\* C5: a bulk upload of N >= 1 rows the schema admits, none of which the
\* database rejects, returns created_count = N, success = true and no errors
\* field; it adds exactly N records and leaves the others alone, and the
\* added records are the input rows, one each (rows with the same name too),
\* with the row's values as the columns keep them.
BulkAllValidAllCreated ==
    [][(/\ Called("bulkUploadLocations")
        /\ bulkUploadInputSchema(request'.input)
        /\ request'.rejected = {})
       => LET l == request'.input.locations
          IN  /\ response' = Returned([success |-> TRUE, created_count |-> Len(l)])
              /\ Cardinality(Added) = Len(l)
              /\ \A id \in DOMAIN locationsTable :
                    id \in DOMAIN locationsTable' /\ locationsTable'[id] = locationsTable[id]
              /\ \E at \in [1..Len(l) -> Added] :
                    /\ \A j, k \in 1..Len(l) : at[j] = at[k] => j = k
                    /\ \A k \in 1..Len(l) : Stores(locationsTable'[at[k]], l[k])
      ]_vars

\* C5 witness: two rows with the same name and values, both created.
BulkDuplicateRowsCreated ==
    /\ Answered("bulkUploadLocations")
    /\ Len(request.input.locations) = 2
    /\ request.input.locations[1] = request.input.locations[2]
    /\ response.value.created_count = 2
    /\ Cardinality({id \in DOMAIN locationsTable : locationsTable[id].name = "B"}) = 2

\* C6: a bulkUploadLocations call whose input the schema admits always
\* returns, whichever rows fail.  Every failed row has exactly one error
\* message, with its position in the input (from 1), its name and the reason
\* its insert failed; the messages are in ascending row order; created_count
\* plus the number of messages is the number of input rows.
BulkOneErrorPerFailedRow ==
    (request.op = "bulkUploadLocations" /\ bulkUploadInputSchema(request.input))
    => /\ response.kind = "ok"
       /\ LET l == request.input.locations
              errs == Errors(response.value)
              first == CHOOSE j \in request.rejected : \A k \in request.rejected : j <= k
          IN  /\ response.value.created_count + Len(errs) = Len(l)
              /\ {errs[j].row : j \in 1..Len(errs)} = FailedRows(request)
              /\ \A j, k \in 1..Len(errs) : j < k => errs[j].row < errs[k].row
              /\ \A j \in 1..Len(errs) :
                    /\ errs[j].name = l[errs[j].row].name
                    /\ errs[j].reason =
                          IF errs[j].row = first THEN DatabaseError ELSE AbortedError

\* C6 witness: the second of two rows failed; the first was counted and the
\* one message names row 2.
BulkSecondRowFailed ==
    /\ Answered("bulkUploadLocations")
    /\ request.rejected = {2}
    /\ response.value.created_count = 1
    /\ Len(Errors(response.value)) = 1
    /\ Errors(response.value)[1].row = 2

\* C7: in every bulkUploadLocations response success is true exactly when
\* created_count > 0, and the errors field is there exactly when a row
\* failed; when it is there it is not empty.
BulkResponseShape ==
    Answered("bulkUploadLocations")
    => /\ response.value.success <=> response.value.created_count > 0
       /\ "errors" \in DOMAIN response.value <=> FailedRows(request) # {}
       /\ "errors" \in DOMAIN response.value => Len(response.value.errors) > 0

\* C7 witness: nothing was created; success is false and errors is there.
BulkNothingCreated ==
    /\ Answered("bulkUploadLocations")
    /\ ~response.value.success
    /\ response.value.created_count = 0
    /\ "errors" \in DOMAIN response.value

\* C8: every stored location has latitude in [-90, 90], longitude in
\* [-180, 180], loads >= 0 and a name that is not empty.
StoredLocationsInRange ==
    \A id \in DOMAIN locationsTable :
        LET row == locationsTable[id]
        IN  /\ 0 - LatMax * Scale7 <= row.latitude /\ row.latitude <= LatMax * Scale7
            /\ 0 - LonMax * Scale7 <= row.longitude /\ row.longitude <= LonMax * Scale7
            /\ row.snow_load >= 0
            /\ row.wind_speed >= 0
            /\ row.seismic_load >= 0
            /\ row.name # ""

\* C8 witness: an update has stored -89.99999996, rounded onto the bound -90.
UpdateStoredLatitudeOnBound ==
    /\ Answered("updateLocation")
    /\ "latitude" \in DOMAIN request.input.set
    /\ \E id \in DOMAIN locationsTable :
          /\ id = request.input.id
          /\ locationsTable[id].latitude = 0 - LatMax * Scale7
          /\ locationsTable[id].longitude = ToNumeric(LonA)

\* C9: every stored location has updated_at >= created_at.
UpdatedAtNotBeforeCreatedAt ==
    \A id \in DOMAIN locationsTable :
        locationsTable[id].updated_at >= locationsTable[id].created_at

\* C10: every updateLocation call that returns strictly increases the
\* record's updated_at, leaves its created_at unchanged, and returns an
\* updated_at strictly later than created_at.
UpdateStrictlyAdvancesUpdatedAt ==
    [][(/\ Called("updateLocation")
        /\ response'.kind = "ok"
        /\ request'.input.id \in DOMAIN locationsTable)
       => LET id == request'.input.id
          IN  /\ locationsTable'[id].updated_at > locationsTable[id].updated_at
              /\ locationsTable'[id].created_at = locationsTable[id].created_at
              /\ response'.value.updated_at > response'.value.created_at
      ]_vars

\* The records of the table that a step left as they were.
Kept == \A id \in DOMAIN locationsTable :
            id \in DOMAIN locationsTable' /\ locationsTable'[id] = locationsTable[id]

\* C11: a createLocation call with an input the schema admits, whose INSERT
\* the database executes, adds exactly one record and returns it, and every
\* field of the returned record equals the input's field; created_at equals
\* updated_at.
CreateReturnsInputFields ==
    [][(/\ Called("createLocation")
        /\ createLocationInputSchema(request'.input)
        /\ request'.rejected = {})
       => /\ response'.kind = "ok"
          /\ Added = {response'.value.id}
          /\ \A f \in MutableFields : response'.value[f] = request'.input[f]
          /\ response'.value.created_at = response'.value.updated_at
      ]_vars

\* C11 as amended: a createLocation call with an input the schema admits,
\* whose INSERT the database executes, adds exactly one record, leaves the
\* others alone and returns the added record.  Its name and address are the
\* input's, its latitude and longitude the input's rounded to seven decimal
\* places, its loads the input's as a single-precision column keeps them, and its
\* created_at equals its updated_at, in the table and as returned.
CreateReturnsStoredRecord ==
    [][(/\ Called("createLocation")
        /\ createLocationInputSchema(request'.input)
        /\ request'.rejected = {})
       => /\ response'.kind = "ok"
          /\ Added = {response'.value.id}
          /\ Kept
          /\ LET input == request'.input
                 row == locationsTable'[response'.value.id]
                 location == response'.value
             IN  /\ Stores(row, input)
                 /\ row.id = location.id
                 /\ row.created_at = row.updated_at
                 /\ location.name = input.name
                 /\ location.address = input.address
                 /\ location.latitude = ParseFloat(ToNumeric(input.latitude))
                 /\ location.longitude = ParseFloat(ToNumeric(input.longitude))
                 /\ location.snow_load = ToReal(input.snow_load)
                 /\ location.wind_speed = ToReal(input.wind_speed)
                 /\ location.seismic_load = ToReal(input.seismic_load)
                 /\ location.created_at = location.updated_at
      ]_vars

\* C11 witness: createLocation with latitude -89.99999996 and snow_load
\* 16777217 has returned the stored record, with latitude -90 and snow_load
\* 16777216.
CreateReturnedRoundedValues ==
    /\ Answered("createLocation")
    /\ request.input.latitude = LatB
    /\ request.input.snow_load = RealSignificand + 1
    /\ response.value.id \in DOMAIN locationsTable
    /\ response.value.latitude = Num(TRUE, LatMax * Scale7, 0)
    /\ response.value.snow_load = RealSignificand

\* C12: ids are assigned by the system, unique and immutable.  Every stored
\* record is kept under its own id, so no two records share one; a
\* createLocation call that returns gives an id that no createLocation call
\* returned before and that no stored record has; an updateLocation call
\* that returns gives the id it was called with and leaves every record under
\* the id it had.
IdsUniqueAndImmutable ==
    [][/\ \A id \in DOMAIN locationsTable' : locationsTable'[id].id = id
       /\ (Called("createLocation") /\ response'.kind = "ok")
             => /\ response'.value.id \notin returnedIds
                /\ response'.value.id \notin DOMAIN locationsTable
                /\ response'.value.id \in DOMAIN locationsTable'
       /\ (Called("updateLocation") /\ response'.kind = "ok")
             => /\ response'.value.id = request'.input.id
                /\ DOMAIN locationsTable' = DOMAIN locationsTable
      ]_vars

\* C12 witness: createLocation returned id 1, the record was deleted, and the
\* next createLocation returned id 2 though the table was empty.
CreateAfterDeleteGotNewId ==
    /\ Answered("createLocation")
    /\ response.value.id = 2
    /\ DOMAIN locationsTable = {2}
    /\ returnedIds = {1, 2}

\* C13: a deleteLocation call whose DELETE the database executes never
\* throws: it returns success = true when a record had the id, and the record
\* is gone afterwards, and success = false when none had it.  A second
\* deleteLocation of an id whose delete just returned true returns false.
DeleteReportsWhetherRemoved ==
    [][(Called("deleteLocation") /\ request'.rejected = {})
       => LET id == request'.input.id
          IN  /\ response' = Returned([success |-> id \in DOMAIN locationsTable])
              /\ id \notin DOMAIN locationsTable'
              /\ (/\ request.op = "deleteLocation"
                  /\ request.input.id = id
                  /\ response = Returned([success |-> TRUE]))
                    => response' = Returned([success |-> FALSE])
      ]_vars

\* C13 witness: an id that createLocation returned was deleted and deleted
\* again: the last deleteLocation returned success = false.
DeletedTwiceReturnedFalse ==
    /\ Answered("deleteLocation")
    /\ ~response.value.success
    /\ request.input.id \in returnedIds

\* C14: a deleteLocation call leaves every record with another id in the
\* table with all its fields unchanged, and removes nothing but the record
\* with its id; when no record has the id, or the call throws, the table is
\* unchanged.
DeleteRemovesOnlyItsRecord ==
    [][Called("deleteLocation")
       => LET id == request'.input.id
          IN  /\ \A other \in DOMAIN locationsTable \ {id} :
                    /\ other \in DOMAIN locationsTable'
                    /\ locationsTable'[other] = locationsTable[other]
              /\ DOMAIN locationsTable' \subseteq DOMAIN locationsTable
              /\ (id \notin DOMAIN locationsTable \/ response'.kind = "error")
                    => locationsTable' = locationsTable
      ]_vars

\* C14 witness: one of two records was deleted and the other is still there.
DeletedOneOfTwo ==
    /\ Answered("deleteLocation")
    /\ response.value.success
    /\ Cardinality(DOMAIN locationsTable) = 1
    /\ request.input.id \notin DOMAIN locationsTable

\* C15: a getLocationById call whose SELECT the database executes returns
\* the stored record with the id of its input when there is one, and null
\* when there is none; it throws only when the database rejects the SELECT,
\* and then not "not found".
GetByIdReturnsRecordOrNull ==
    request.op = "getLocationById"
    => LET id == request.input.id
       IN  /\ request.rejected = {}
              => response = IF id \in DOMAIN locationsTable
                            THEN Returned(Location(locationsTable[id]))
                            ELSE Returned(NULL)
           /\ response.kind = "error"
              => request.rejected # {} /\ response.error = DatabaseError

\* C15 witness: getLocationById returned null for an id that createLocation
\* had returned and deleteLocation has removed.
GetDeletedIdReturnedNull ==
    /\ request.op = "getLocationById"
    /\ request.input.id \in returnedIds
    /\ request.input.id \notin DOMAIN locationsTable
    /\ response = Returned(NULL)

\* C16: a getLocations call whose SELECT the database executes returns a
\* list holding every stored record exactly once, no record before one with
\* a later created_at; the list is empty when the table is.
GetLocationsNewestFirst ==
    (request.op = "getLocations" /\ request.rejected = {})
    => /\ response.kind = "ok"
       /\ LET list == response.value
          IN  /\ Len(list) = Cardinality(DOMAIN locationsTable)
              /\ {list[k].id : k \in 1..Len(list)} = DOMAIN locationsTable
              /\ \A k \in 1..Len(list) : list[k] = Location(locationsTable[list[k].id])
              /\ \A j, k \in 1..Len(list) :
                    j < k => /\ locationsTable[list[j].id].created_at
                                >= locationsTable[list[k].id].created_at
                             /\ list[j].created_at >= list[k].created_at
              /\ locationsTable = <<>> => list = <<>>

\* C16 witness: two records created at different times came back with the
\* later one first.
GetLocationsLaterRecordFirst ==
    /\ Answered("getLocations")
    /\ Len(response.value) = 2
    /\ response.value[1].id = 2
    /\ response.value[2].id = 1
    /\ locationsTable[2].created_at > locationsTable[1].created_at

\* Values a create input or a bulk upload row must not have: an empty name, a
\* latitude outside [-90, 90], a longitude outside [-180, 180], a negative
\* load.
BadName(v) == v = ""
BadCoordinate(x, k) == x.u > k * Scale7 \/ (x.u = k * Scale7 /\ x.d > 0)
BadLoad(x) == x < 0

BadLocation(v) ==
    \/ BadName(v.name)
    \/ BadCoordinate(v.latitude, LatMax)
    \/ BadCoordinate(v.longitude, LonMax)
    \/ BadLoad(v.snow_load) \/ BadLoad(v.wind_speed) \/ BadLoad(v.seismic_load)

\* The same of the fields an update supplies.
BadUpdate(u) ==
    \/ "name" \in DOMAIN u /\ BadName(u.name)
    \/ "latitude" \in DOMAIN u /\ BadCoordinate(u.latitude, LatMax)
    \/ "longitude" \in DOMAIN u /\ BadCoordinate(u.longitude, LonMax)
    \/ \E f \in {"snow_load", "wind_speed", "seismic_load"} : f \in DOMAIN u /\ BadLoad(u[f])

\* The input of the call a step makes violates the schema of its procedure.
BadInput ==
    \/ Called("createLocation") /\ BadLocation(request'.input)
    \/ Called("updateLocation") /\ BadUpdate(request'.input.set)
    \/ /\ Called("bulkUploadLocations")
       /\ \/ Len(request'.input.locations) = 0
          \/ \E k \in 1..Len(request'.input.locations) :
                BadLocation(request'.input.locations[k])

\* C17: a createLocation, updateLocation or bulkUploadLocations call whose
\* input has an empty name, a latitude outside [-90, 90], a longitude outside
\* [-180, 180] or a negative load, or a bulk upload with no rows, throws the
\* validation error, and the table and the id sequence are as before: no
\* statement reached the database.
BadInputRefused ==
    [][BadInput
       => /\ response' = Thrown(ValidationError)
          /\ locationsTable' = locationsTable
          /\ idSeq' = idSeq
      ]_vars

\* C17 witness: createLocation with an empty name was refused while the
\* table held a record, which is still there.
CreateEmptyNameRefused ==
    /\ request.op = "createLocation"
    /\ request.input.name = ""
    /\ response = Thrown(ValidationError)
    /\ DOMAIN locationsTable # {}

\* The procedures whose handler sends one statement and rethrows its error.
SingleStatementOps ==
    {"createLocation", "getLocations", "getLocationById", "updateLocation", "deleteLocation"}

\* C18: when the database rejects the statement of a createLocation,
\* getLocations, getLocationById, updateLocation or deleteLocation call, the
\* call throws the database's error and the table is as before; a
\* bulkUploadLocations call returns its response whichever of its inserts the
\* database rejects.
OnlyBulkUploadSurvivesRejection ==
    [][/\ (\E op \in SingleStatementOps : Called(op)) /\ request'.rejected # {}
          => /\ response' = Thrown(DatabaseError)
             /\ locationsTable' = locationsTable
       /\ Called("bulkUploadLocations") /\ request'.rejected # {}
          => /\ response'.kind = "ok"
             /\ Len(Errors(response'.value)) > 0
      ]_vars

\* C18 witness: the database rejected the SELECT of getLocations, which threw,
\* while the table held records.
GetLocationsThrew ==
    /\ request.op = "getLocations"
    /\ request.rejected # {}
    /\ response = Thrown(DatabaseError)
    /\ DOMAIN locationsTable # {}

\* The records a step removed, and those it changed.
Removed == DOMAIN locationsTable \ DOMAIN locationsTable'
Changed == {id \in DOMAIN locationsTable \cap DOMAIN locationsTable' :
               locationsTable'[id] # locationsTable[id]}

\* C19: healthcheck, getLocations and getLocationById calls, and the time
\* between calls, leave the table as it is; a record is added only by a
\* createLocation or bulkUploadLocations call, an existing record changes
\* only by an updateLocation call with its id, and a record is removed only
\* by a deleteLocation call with its id.
TableChangesOnlyThroughItsOperation ==
    [][/\ (\/ calls' = calls
           \/ \E op \in {"healthcheck", "getLocations", "getLocationById"} : Called(op))
          => locationsTable' = locationsTable
       /\ Added # {} => Called("createLocation") \/ Called("bulkUploadLocations")
       /\ Changed # {} => Called("updateLocation") /\ Changed = {request'.input.id}
       /\ Removed # {} => Called("deleteLocation") /\ Removed = {request'.input.id}
      ]_vars

\* C19 witness: getLocationById returned a record and the table still holds
\* it, the same.
GetByIdLeftRecord ==
    /\ request.op = "getLocationById"
    /\ request.input.id \in DOMAIN locationsTable
    /\ response = Returned(Location(locationsTable[request.input.id]))

\* ------------------------------------------------- sequential executions
\* A logged call run by its handler on a table, as a call on its own runs.
RunCall(e, tbl, seq) ==
    CASE e.op = "createLocation" -> createLocation(e.input, tbl, seq, e.at, e.rejected # {})
      [] e.op = "updateLocation" -> updateLocation(e.input, tbl, seq, e.at, e.rejected # {})
      [] e.op = "deleteLocation" -> deleteLocation(e.input, tbl, seq, e.rejected # {})
      [] e.op = "bulkUploadLocations" ->
            bulkUploadLocations(e.input, tbl, seq, e.at, e.rejected)

\* The logged calls run one after the other in the given order from the
\* empty table: the table they leave, and whether each returned what it
\* returned in the run.
RECURSIVE Sequential(_, _, _, _)
Sequential(order, k, tbl, seq) ==
    IF k > Len(order) THEN [table |-> tbl, same |-> TRUE]
    ELSE LET e == log.calls[order[k]]
             o == RunCall(e, tbl, seq)
         IN  IF o.response = e.response
             THEN Sequential(order, k + 1, o.table, o.idSeq)
             ELSE [table |-> tbl, same |-> FALSE]

\* The same, each insert taking the id the sequence gave it in the run.
RECURSIVE BulkLoopWithIds(_, _, _)
BulkLoopWithIds(st, i, e) ==
    IF i < Len(e.input.locations)
    THEN BulkLoopWithIds(BulkStep([st EXCEPT !.idSeq = e.seqs[i + 1]], i,
                                  e.input.locations[i + 1], (i + 1) \in e.rejected, e.at),
                         i + 1, e)
    ELSE st

RunCallWithIds(e, tbl) ==
    IF e.op = "bulkUploadLocations"
    THEN LET st == BulkLoopWithIds(Begin(e.input, e.rejected, e.at).st, 0, e)
         IN  Outcome(Commit(tbl, st), 0, Returned(BulkUploadResponse(st)))
    ELSE RunCall(e, tbl, e.seqs[1])

RECURSIVE SequentialWithIds(_, _, _)
SequentialWithIds(order, k, tbl) ==
    IF k > Len(order) THEN [table |-> tbl, same |-> TRUE]
    ELSE LET e == log.calls[order[k]]
             o == RunCallWithIds(e, tbl)
         IN  IF o.response = e.response
             THEN SequentialWithIds(order, k + 1, o.table)
             ELSE [table |-> tbl, same |-> FALSE]

Orders(n) == {order \in [1..n -> 1..n] : \A j, k \in 1..n : j # k => order[j] # order[k]}

\* C20: when every call has returned, the table and every call's result are
\* those of the same calls run one after the other in some order.
OverlappingCallsAreSequential ==
    (log.on /\ open = <<>>)
    => \E order \in Orders(Len(log.calls)) :
          LET run == Sequential(order, 1, <<>>, 0)
          IN  run.same /\ run.table = locationsTable

\* C20 as amended: when every call has returned, the table and every call's
\* result are those of the same calls run one after the other in some order,
\* each insert taking the id the sequence gave it: a record created while a
\* bulk upload is in progress may have an id between the ids of the upload's
\* rows, which no sequential execution gives it.
OverlappingCallsAreSequentialButForIds ==
    (log.on /\ open = <<>>)
    => \E order \in Orders(Len(log.calls)) :
          LET run == SequentialWithIds(order, 1, <<>>)
          IN  run.same /\ run.table = locationsTable

\* C20 witness: a bulk upload of two rows has returned, and a record created
\* between its two inserts has the id 2, between the ids 1 and 3 of its rows.
CreatedBetweenBulkInserts ==
    /\ log.on
    /\ open = <<>>
    /\ Answered("bulkUploadLocations")
    /\ response.value.created_count = 2
    /\ DOMAIN locationsTable = {1, 2, 3}
    /\ locationsTable[1].name = "A"
    /\ locationsTable[3].name = "B"
    /\ 2 \in returnedIds

\* |x - y| <= 1e-6, that is 100 units of 1e-8 degrees (the digits of an
\* input past its eighth decimal place are less than one unit).
Within1e6(x, y) ==
    LET du == Signed(x.neg, x.u) - Signed(y.neg, y.u)
        dd == Signed(x.neg, x.d) - Signed(y.neg, y.d)
    IN  du \in -12..12 /\ (du * 10 + dd) \in -100..100

\* The value of field f that the first k logged calls wrote last to the
\* record id (the database rejected none of their statements).
RECURSIVE LastWritten(_, _, _)
LastWritten(id, f, k) ==
    IF k = 0 THEN NULL
    ELSE LET e == log.calls[k]
             first == e.seqs[1] + 1
         IN  CASE e.op = "createLocation" /\ e.response.kind = "ok" /\ first = id ->
                    e.input[f]
               [] e.op = "bulkUploadLocations" /\ e.response.kind = "ok"
                  /\ id \in first..(first + Len(e.input.locations) - 1) ->
                    e.input.locations[id - first + 1][f]
               [] e.op = "updateLocation" /\ e.response.kind = "ok"
                  /\ e.input.id = id /\ f \in DOMAIN e.input.set ->
                    e.input.set[f]
               [] OTHER -> LastWritten(id, f, k - 1)

\* C23: the latitude and the longitude of a record that getLocationById
\* returns are within 1e-6 of the values that the last createLocation,
\* updateLocation or bulkUploadLocations call to write them was given.
CoordinatesReadBackWithin1e6 ==
    (log.on /\ Answered("getLocationById") /\ request.input.id \in DOMAIN locationsTable)
    => \A f \in {"latitude", "longitude"} :
          Within1e6(LastWritten(request.input.id, f, Len(log.calls)), response.value[f])

\* C23 witness: getLocationById returned 40.7128123 for a latitude written
\* as 40.7128123456789.
ReadBackLatitudeRounded ==
    /\ log.on
    /\ Answered("getLocationById")
    /\ request.input.id \in DOMAIN locationsTable
    /\ LastWritten(request.input.id, "latitude", Len(log.calls)) = LatD
    /\ response.value.latitude = Num(FALSE, 407128123, 0)

\* Two logged updateLocation calls that returned a record, of the same id,
\* with no field supplied by both.
DisjointUpdates(first, second) ==
    /\ first.op = "updateLocation" /\ second.op = "updateLocation"
    /\ first.response.kind = "ok" /\ second.response.kind = "ok"
    /\ first.input.id = second.input.id
    /\ DOMAIN first.input.set \cap DOMAIN second.input.set = {}

\* C24: when an updateLocation call returns a record right after another
\* updateLocation call of the same id did, whether the two overlapped or
\* not, and no field is supplied by both, the stored record holds every
\* field supplied by either call as its column keeps that call's value, and
\* every field supplied by neither as it was.
DisjointUpdatesBothTakeEffect ==
    [][(log.on /\ Len(log.calls) >= 1 /\ Len(log'.calls) = Len(log.calls) + 1)
       => LET first == log.calls[Len(log.calls)]
              second == log'.calls[Len(log'.calls)]
              id == second.input.id
          IN  DisjointUpdates(first, second)
              => /\ \A f \in DOMAIN first.input.set :
                       locationsTable'[id][f] = ColumnValue(f, first.input.set[f])
                 /\ \A f \in DOMAIN second.input.set :
                       locationsTable'[id][f] = ColumnValue(f, second.input.set[f])
                 /\ \A f \in MutableFields \ (DOMAIN first.input.set \cup DOMAIN second.input.set) :
                       locationsTable'[id][f] = locationsTable[id][f]
      ]_vars

\* C24 witness: an update of the address began, an update of the name began
\* and returned while the first was awaiting its statement, and then the
\* first returned; the record has the name and the address.
OverlappingUpdatesBothStored ==
    /\ log.on
    /\ Len(log.calls) >= 2
    /\ LET first == log.calls[Len(log.calls) - 1]
           second == log.calls[Len(log.calls)]
       IN  /\ DisjointUpdates(first, second)
           /\ second.at < first.at
           /\ DOMAIN first.input.set = {"name"}
           /\ DOMAIN second.input.set = {"address"}
           /\ locationsTable[second.input.id].name = "B"
           /\ locationsTable[second.input.id].address = "x"

\* C25: once a deleteLocation call has removed a record, no record has its
\* id again: no later createLocation call returns the id, and of the later
\* calls with the id whose statement the database executes, getLocationById
\* returns null, updateLocation throws not found and deleteLocation returns
\* success = false.
DeletedIdsNeverReturn ==
    log.on
    => \A k \in 1..Len(log.calls) :
          LET e == log.calls[k]
          IN  (e.op = "deleteLocation" /\ e.response = Returned([success |-> TRUE]))
              => /\ e.input.id \notin DOMAIN locationsTable
                 /\ \A m \in (k + 1)..Len(log.calls) :
                       LET c == log.calls[m]
                       IN  /\ (c.op = "createLocation" /\ c.response.kind = "ok")
                              => c.response.value.id # e.input.id
                           /\ (c.op = "getLocationById" /\ c.input.id = e.input.id)
                              => c.response = Returned(NULL)
                           /\ (c.op = "updateLocation" /\ c.input.id = e.input.id)
                              => c.response = Thrown(NotFoundError)
                           /\ (c.op = "deleteLocation" /\ c.input.id = e.input.id)
                              => c.response = Returned([success |-> FALSE])

\* C25 witness: the record 1 was created and deleted, and the bulk upload
\* after it gave its two rows the ids 2 and 3.
BulkAfterDeleteGotNewIds ==
    /\ log.on
    /\ Len(log.calls) = 3
    /\ log.calls[1].op = "createLocation"
    /\ log.calls[2].op = "deleteLocation"
    /\ log.calls[2].response = Returned([success |-> TRUE])
    /\ log.calls[3].op = "bulkUploadLocations"
    /\ DOMAIN locationsTable = {2, 3}

\* A position is a number from lo to hi; it is the number k.
Between(r, lo, hi) == r.d > 0 /\ lo * r.d <= r.n /\ r.n <= hi * r.d
Equals(r, k) == r.d > 0 /\ r.n = k * r.d

\* C30: every marker the map draws has x from 50 to 750 and y from 50 to
\* 450, numbers both (nothing was divided by zero, whether or not the
\* locations share a latitude or a longitude); a location of the greatest
\* latitude is drawn at y = 50 and one of the smallest longitude at x = 50.
MarkersInsideTheMap ==
    map.drawn
    => \A k \in DOMAIN map.markers :
          LET location == app.locations[k]
              position == map.markers[k]
          IN  /\ Between(position.x, 50, 750)
              /\ Between(position.y, 50, 450)
              /\ Twentieths(location.latitude) = map.bounds.north => Equals(position.y, 50)
              /\ Twentieths(location.longitude) = map.bounds.west => Equals(position.x, 50)

\* C30 witness: two locations of one latitude and two longitudes are drawn
\* at y = 50, the western one at x = 50 and the other at x = 750.
TwoMarkersOnOneLatitude ==
    /\ map.drawn
    /\ Len(map.markers) = 2
    /\ map.bounds.north = map.bounds.south
    /\ map.bounds.east # map.bounds.west
    /\ \A k \in 1..2 : Equals(map.markers[k].y, 50)
    /\ \E k \in 1..2 : Equals(map.markers[k].x, 50)
    /\ \E k \in 1..2 : Equals(map.markers[k].x, 750)

\* The file a step finishes reading, its lines that are not blank, and
\* whether its header lacks one of the seven names.
FileRead == Len(upload.reading) > 0 /\ upload'.reading = Tail(upload.reading)
LinesOf(file) == SelectSeq(file.lines, LAMBDA line : \E k \in DOMAIN line : Trim(line[k]) # <<>> \/ Len(line) > 1)
HeaderLacksAName(lines) ==
    \/ Len(lines) = 0
    \/ \E h \in MutableFields :
          \A k \in DOMAIN lines[1] : Text(Trim(Unquote(lines[1][k]))) # h
HasNaN(row) ==
    \E f \in {"latitude", "longitude", "snow_load", "wind_speed", "seismic_load"} : row[f].nan

\* C22: when the header of the file lacks one of name, address, latitude,
\* longitude, snow_load, wind_speed and seismic_load, the file is rejected:
\* parsedData gets no valid row, only one error; and when every data line
\* of a file gave a valid row, the row of a line whose second cell (the
\* address) is empty has the address null, the row of any other line the
\* text of that cell.
HeaderRequiredAndEmptyAddressNull ==
    [][FileRead
       => LET lines == LinesOf(Head(upload.reading))
              data == upload'.parsedData
          IN  /\ HeaderLacksAName(lines)
                 => data.validRows = <<>> /\ Len(data.errors) = 1 /\ data.totalRows = 0
              /\ (Len(lines) >= 2 /\ Len(data.validRows) = Len(lines) - 1)
                 => \A k \in DOMAIN data.validRows :
                       LET cell == Trim(Unquote(lines[k + 1][2]))
                       IN  /\ cell = <<>> => data.validRows[k].address = NULL
                           /\ cell # <<>> => data.validRows[k].address = Text(cell)]_vars

\* C22 witness: a file of two data lines was parsed into two valid rows,
\* the first with an address and the second, whose address cell held only
\* two quotes, with the address null.
SecondRowWithoutAddress ==
    /\ upload.parsedData.shown
    /\ Len(upload.parsedData.validRows) = 2
    /\ upload.parsedData.validRows[1].address = "x 8"
    /\ upload.parsedData.validRows[2].address = NULL
    /\ upload.parsedData.errors = <<>>

\* C26: when a file with a complete header and a data line has been read,
\* either it could not be read, or every data line was classified once:
\* validRows and errors together are as many as totalRows, which is the
\* number of lines that are not blank less the header; no row of
\* validRows holds a NaN, and validRows, if there are any (handleUpload
\* sends nothing otherwise), pass bulkUploadInputSchema.
EveryLineClassifiedValidRowsPass ==
    [][FileRead
       => LET lines == LinesOf(Head(upload.reading))
              data == upload'.parsedData
          IN  (Len(lines) >= 2 /\ ~HeaderLacksAName(lines))
              => \/ data = Unparsed("Failed to read file", "")
                 \/ /\ Len(data.validRows) + Len(data.errors) = data.totalRows
                    /\ data.totalRows = Len(lines) - 1
                    /\ \A k \in DOMAIN data.validRows : ~HasNaN(data.validRows[k])
                    /\ Len(data.validRows) > 0
                       => bulkUploadInputSchema([locations |-> SentRows(data.validRows)])]_vars

\* C26 witness: a file of two data lines, one with the latitude 91, was
\* parsed into one valid row and one error.
OneRowValidOneRefused ==
    /\ upload.parsedData.shown
    /\ upload.parsedData.totalRows = 2
    /\ Len(upload.parsedData.validRows) = 1
    /\ Len(upload.parsedData.errors) = 1
    /\ upload.parsedData.errors[1].reason = "Invalid latitude"

\* The timeout of a successful upload runs its callback in this step; the
\* closure of the handleUpload that set it.
ResetRuns == Due("resetUpload") /\ timers'.timeouts = Tail(timers.timeouts)
ResetClosure == Head(timers.timeouts).closure

\* C27: when the reset that a successful upload set 3 seconds before runs,
\* what it clears is that upload's: no later upload is in flight, the parsed
\* data shown are the data that were uploaded, with that upload's result
\* still beside them (no file was chosen since), and the result shown is a
\* success that no later upload produced (no other reset is waiting).
ResetClearsOnlyItsOwnUpload ==
    [][ResetRuns
       => /\ ~upload.isUploading
          /\ upload.parsedData.shown
             => upload.parsedData = ResetClosure.parsedData /\ upload.uploadResult.shown
          /\ upload.uploadResult.shown
             => upload.uploadResult.success /\ Len(timers.timeouts) = 1]_vars

\* C28: after every step, when no handleUpload is running (isUploading is
\* false) no progress interval is running either, and while one is running
\* uploadProgress is at most 90; and uploadProgress becomes 100 only in the
\* step that takes the answer of a bulk upload.
IntervalClearedWhenUploadFinished ==
    [][/\ ~upload'.isUploading => timers'.intervals = {}
       /\ upload'.isUploading => upload'.uploadProgress <= 90
       /\ (upload'.uploadProgress = 100 /\ upload.uploadProgress # 100)
          => AnsweredCalls("bulkUploadLocations", "ok") # {}]_vars

\* A step of the user that takes a message away and does nothing else:
\* no call is sent and what was entered stays.
DismissesFormError ==
    NextPage /\ form' = [form EXCEPT !.error = NULL] /\ rpc' = rpc
DismissesTableError ==
    NextPage /\ table' = [table EXCEPT !.error = NULL] /\ rpc' = rpc
DismissesUploadResult ==
    NextUpload /\ upload'.uploadResult = NoUploadResult /\ rpc' = rpc

\* The rest of a handler runs in this step, its call having thrown.
Throws(op) == AnsweredCalls(op, "error") # {} /\ Len(rpc') < Len(rpc)

\* C21: a failure message on display can be dismissed (by a step that only
\* takes it away); a createLocation that throws leaves the message of the
\* failure and the form's fields as they were; an updateLocation that
\* throws leaves the message, and the dialog, if it was open, open with its
\* values; a deleteLocation that throws leaves the message and the list as
\* it was; a bulkUploadLocations that throws leaves the failure as the
\* upload's result and the parsed rows as they were.
FailuresDismissibleAndStateKept ==
    /\ [](form.error # NULL => ENABLED DismissesFormError)
    /\ [](table.error # NULL => ENABLED DismissesTableError)
    /\ []((upload.uploadResult.shown /\ ~upload.uploadResult.success)
          => ENABLED DismissesUploadResult)
    /\ [][/\ (Throws("createLocation") /\ form' # form)
             => form'.error = CreateFailed /\ form'.formData = form.formData
          /\ (Throws("updateLocation") /\ table' # table)
             => /\ table'.error = UpdateFailed
                /\ DialogOpen => DialogOpen' /\ table'.editFormData = table.editFormData
          /\ (Throws("deleteLocation") /\ table' # table)
             => table'.error = DeleteFailed /\ app'.locations = app.locations
          /\ (Throws("bulkUploadLocations") /\ upload' # upload)
             => /\ upload'.uploadResult = UploadFailed
                /\ upload'.parsedData = upload.parsedData]_vars

\* C29: no two entries of App's list of locations have the same id.
ListedIdsDistinct ==
    \A j, k \in DOMAIN app.locations :
        j # k => app.locations[j].id # app.locations[k].id

====
